---------------------------- MODULE Spec2Model ----------------------------
(* Write-behind persistence engine of skpmem (src/skpmem/async_pmem.py):    *)
(* the in-memory cache, the tombstone set, the threaded mutation queue and  *)
(* its daemon worker, the cooperative queue and its writer task,            *)
(* flush / close, and the durable table.                                    *)
(* Callers run the public methods step by step: one step per statement or   *)
(* locked block that another thread can observe, and one step per stretch   *)
(* between two awaits of a coroutine.                                       *)
EXTENDS Integers, Sequences, FiniteSets, TLC

VARIABLES
    memory_store,      \* self.memory_store: dict hash_key -> value
    deleted_keys,      \* self.deleted_keys: set of hash_key
    sync_write_queue,  \* self.sync_write_queue: queue.Queue of operations
    sync_initialized,  \* self.sync_initialized
    daemon_running,    \* self.daemon_running
    daemon_thread,     \* self.daemon_thread: index into workers, 0 = None
    write_queue,       \* self.write_queue: asyncio.Queue of (hash_key, val)
    unfinished,        \* write_queue's count of items not yet task_done
    initialized,       \* self.initialized
    init_task,         \* self._init_task: index into writers, 0 = None
    key_error,         \* self.key_error (constructor argument)
    workers,           \* the daemon threads ever started: [pc, item]
    writers,           \* the _async_db_writer tasks ever created: [pc, item]
    db,                \* rows of table memory in the database file
    schema,            \* whether table memory exists in the database file
    callers,           \* the callers of this run
    keyset,            \* the keys the callers of this run use
    closed,            \* close_sync or close has been called on the instance
    pc,                \* position of each caller
    call,              \* the call each caller is in
    hist,              \* the calls each caller completed before it
    lastMut,           \* per key: the latest mutation call, in cache order
    lastIn,            \* per key: the latest value saved through each mode
    expect,            \* what save; flush; close has promised
    fifo,              \* the table, had every item taken been applied when taken
    history,           \* sqlite_memory2: self.history (constructor argument)
    clock,             \* sqlite_memory2: the latest reading of datetime.now()
    saved,             \* sqlite_memory2: the save_memory calls that returned
    errors,            \* the error lines the worker and the writer have logged
    resumed,           \* the log shows an operation applied after an error line
    _cache,            \* CachedStore: self._cache
    _write_queue,      \* CachedStore: self._write_queue, the snapshots put on it
    _shutdown_flag,    \* CachedStore: self._shutdown_flag is set
    _writer_thread,    \* CachedStore: the StoreWriter thread: [pc, operation]
    file,              \* CachedStore: the dict pickled in the file at file_path
    close_call,        \* CachedStore: the call of close: [pc, got, last_operation]
    mutations,         \* CachedStore: the mutations made so far
    on_file,           \* CachedStore: the mutation whose snapshot the file holds
    sync_pmem          \* a pmem.sync_pmem.PersistentMemory given the same calls

cachevars == <<memory_store, deleted_keys>>
syncvars == <<sync_write_queue, sync_initialized, daemon_running, daemon_thread>>
asyncvars == <<write_queue, unfinished, initialized, init_task, writers>>
cfgvars == <<key_error, callers, keyset>>
lifevars == <<closed>>
dbvars == <<db, schema>>
ghostvars == <<hist, lastMut, lastIn, expect, fifo>>
histvars == <<history, clock, saved>>
logvars == <<errors, resumed>>

pickvars == <<_cache, _write_queue, _shutdown_flag, _writer_thread, file,
              close_call, mutations, on_file>>

\* The state of a PersistentMemory instance and of its callers.
pmemvars == <<cachevars, syncvars, asyncvars, cfgvars, logvars, histvars, lifevars,
              dbvars, ghostvars, workers, pc, call, sync_pmem>>

vars == <<pmemvars, pickvars>>

----------------------------------------------------------------------------
(* Bounds and value universes *)

Keys == {"k1", "k2"}
Values == {"v1", "v2"}
Threads == {"t1", "t2"}

\* Bound on the daemon threads and on the writer tasks one instance starts.
MaxWorkers == 3
WorkerIds == 1..MaxWorkers

None == "None"
Dflt == "D"
Sentinel == "_sentinel"
KeyErrorRaised == "KeyError"
NoKey == "-"
NoItem == <<>>

\* Bound on the pending operations of the two (unbounded) queues together.
MaxQueue == 2

\* Bound on the failures of one run while an operation is applied.
MaxErrors == 1

\* queue.Queue() is built without maxsize: 0 means "infinite".
QueueMaxsize == 0

----------------------------------------------------------------------------
(* Pure helpers *)

\* hashlib.sha512(name.encode()).hexdigest(): injective on the keys used.
name_hash(k) == <<"sha512", k>>

\* pickle.dumps / pickle.loads
dumps(v) == <<"pickle", v>>
loads(b) == b[2]

\* dict operations
dict_set(d, h, v) == [x \in (DOMAIN d) \cup {h} |-> IF x = h THEN v ELSE d[x]]
dict_del(d, h) == [x \in (DOMAIN d) \ {h} |-> d[x]]

\* REPLACE INTO memory (key, value) VALUES (?, ?) with key the PRIMARY KEY
sql_replace(rows, h, b) == {r \in rows : r[1] # h} \cup {<<h, b>>}

\* DELETE FROM memory WHERE key = ?
sql_delete(rows, h) == {r \in rows : r[1] # h}

\* SELECT value FROM memory WHERE key = ?
sql_select(rows, h) == {r[2] : r \in {x \in rows : x[1] = h}}

\* queue.Queue.put(item, timeout=1.0) raises queue.Full only on a bounded,
\* full queue.
put_full(q) == QueueMaxsize > 0 /\ Len(q) >= QueueMaxsize

\* threading.Thread.is_alive() of self.daemon_thread
is_alive(w) == w # 0 /\ workers[w].pc # "stopped"

\* The daemon worker's application of one operation.
apply_op(rows, item) ==
    IF item[1] = "save"
    THEN sql_replace(rows, item[2], dumps(item[3]))
    ELSE IF item[1] = "delete"
    THEN sql_delete(rows, item[2])
    ELSE rows

\* __getitem__ without the key_error test: a missing key always raises.
getitem_always_raises(r) == IF r = Sentinel THEN KeyErrorRaised ELSE r

\* __getitem__: the sentinel becomes KeyError or None.
getitem_result(r) ==
    IF r = Sentinel THEN (IF key_error THEN KeyErrorRaised ELSE None) ELSE r

----------------------------------------------------------------------------
(* Calls *)

\* quiet: a read that no mutation of its key has overlapped so far.
NoCall == [op |-> "none", key |-> NoKey, val |-> None, defval |-> None,
           ret |-> None, tmp |-> None, quiet |-> TRUE]

NewCall(o, k, v, d) == [op |-> o, key |-> k, val |-> v, defval |-> d,
                        ret |-> None, tmp |-> None, quiet |-> TRUE]

Mutating(o) == o \in {"save_sync", "delete_sync", "save"}
Reading(o) == o \in {"load_sync", "getitem", "load"}

\* Caller u is inside a mutation of key k (it has not returned).
InsideMutation(u, k) ==
    pc[u] \notin {"idle", "ret"} /\ Mutating(call[u].op) /\ call[u].key = k

\* Caller u has begun a read of key k and has not moved on from it.
InsideRead(u, k) ==
    pc[u] # "idle" /\ Reading(call[u].op) /\ call[u].key = k

Brief(c) == <<c.op, c.key, c.val>>
Blank == Brief(NoCall)

\* The part of a caller's call history that is kept: the two calls before
\* the current one, as far as they can still begin save; save; flush,
\* save; flush; close or close; close.
Keep(p2, p1) ==
    CASE p1[1] = "save_sync" ->
           IF p2[1] = "save_sync" /\ p2[2] = p1[2] THEN <<p2, p1>> ELSE <<Blank, p1>>
      [] p1[1] = "flush_sync" ->
           IF p2[1] = "save_sync" THEN <<p2, p1>> ELSE <<Blank, p1>>
      [] p1[1] \in {"close_sync", "close"} -> <<Blank, p1>>
      [] OTHER -> <<Blank, Blank>>

\* The promise save_sync(k, v); flush_sync(); close_sync() makes when
\* close_sync returns; a later call other than a read withdraws it, and the
\* read of k on the reopened instance redeems it.
Promised(t) ==
    IF /\ call[t].op = "close_sync"
       /\ hist[t][1][1] = "save_sync"
       /\ hist[t][2][1] = "flush_sync"
    THEN <<hist[t][1][2], hist[t][1][3], FALSE>>
    ELSE IF /\ call[t].op \in {"load_sync", "getitem"}
            /\ expect # <<>>
            /\ call[t].key # expect[1]
    THEN expect
    ELSE <<>>

\* A caller enters a public method. The instance is used until it is closed
\* (calls after close are undefined); close itself may be called again.
Enter(t, c) ==
    /\ t \in callers
    /\ pc[t] = "idle"
    /\ c.key \in keyset \cup {NoKey}
    /\ closed => c.op \in {"close_sync", "close"}
    /\ call' = [u \in callers |->
                  IF u = t
                  THEN [c EXCEPT !.quiet =
                          ~(/\ Reading(c.op)
                            /\ \E x \in callers \ {t} : InsideMutation(x, c.key))]
                  ELSE IF Mutating(c.op) /\ InsideRead(u, c.key)
                  THEN [call[u] EXCEPT !.quiet = FALSE]
                  ELSE call[u]]
    /\ closed' = (closed \/ c.op \in {"close_sync", "close"})

\* The call returns r to the caller.
Return(t, r) ==
    /\ pc' = [pc EXCEPT ![t] = "ret"]
    /\ call' = [call EXCEPT ![t].ret = r]

Goto(t, l) == pc' = [pc EXCEPT ![t] = l]

\* The caller goes on after the call.
Resume(t) ==
    /\ t \in callers
    /\ pc[t] = "ret"
    /\ Goto(t, "idle")
    /\ call' = [call EXCEPT ![t] = NoCall]
    /\ hist' = [hist EXCEPT ![t] = Keep(hist[t][2], Brief(call[t]))]
    /\ expect' = Promised(t)
    /\ UNCHANGED <<cachevars, syncvars, asyncvars, cfgvars, pickvars, sync_pmem, logvars, histvars, lifevars, dbvars, lastMut, lastIn,
                   fifo, workers>>

\* Where a method continues after its first-use initialisation.
Cont(o) ==
    CASE o = "save_sync" -> "ss_cache"
      [] o \in {"load_sync", "getitem"} -> "ls_fast"
      [] o = "save" -> "as_put"
      [] o = "load" -> "al_fast"
      [] OTHER -> "ai_done"

\* Room left under the model's bound on pending operations.
QueueRoom ==
    Len(sync_write_queue) + Len(write_queue)
      + Cardinality({t \in callers :
                       call[t].op \in {"save_sync", "delete_sync", "save"}})
      < MaxQueue

\* The first statement of save_sync, load_sync, save and load tests the
\* initialisation flag; a flag that is set stays set, so the method then
\* goes straight on.
FirstSync(o) == IF sync_initialized THEN Cont(o) ELSE "init_check"
FirstAsync(o) == IF initialized THEN Cont(o) ELSE "a_init_check"

----------------------------------------------------------------------------
(* initialize_sync and _start_daemon_thread *)

\* if not self.sync_initialized: self.initialize_sync()
InitCheck(t) ==
    /\ t \in callers /\ pc[t] = "init_check"
    /\ IF sync_initialized THEN Goto(t, Cont(call[t].op)) ELSE Goto(t, "is_check")
    /\ UNCHANGED <<cachevars, syncvars, asyncvars, cfgvars, pickvars, sync_pmem, logvars, histvars, lifevars, dbvars, ghostvars,
                   workers, call>>

\* initialize_sync: if self.sync_initialized: return
InitSyncCheck(t) ==
    /\ t \in callers /\ pc[t] = "is_check"
    /\ IF sync_initialized THEN Goto(t, Cont(call[t].op)) ELSE Goto(t, "is_schema")
    /\ UNCHANGED <<cachevars, syncvars, asyncvars, cfgvars, pickvars, sync_pmem, logvars, histvars, lifevars, dbvars, ghostvars,
                   workers, call>>

\* CREATE TABLE IF NOT EXISTS memory ...; commit
InitSyncSchema(t) ==
    /\ t \in callers /\ pc[t] = "is_schema"
    /\ schema' = TRUE
    /\ Goto(t, "is_set")
    /\ UNCHANGED <<cachevars, syncvars, asyncvars, cfgvars, pickvars, sync_pmem, logvars, histvars, lifevars, db, ghostvars,
                   workers, call>>

\* self.sync_initialized = True
InitSyncSet(t) ==
    /\ t \in callers /\ pc[t] = "is_set"
    /\ sync_initialized' = TRUE
    /\ Goto(t, "sd_check")
    /\ UNCHANGED <<cachevars, sync_write_queue, daemon_running, daemon_thread,
                   asyncvars, cfgvars, pickvars, sync_pmem, logvars, histvars, lifevars, dbvars, ghostvars, workers, call>>

\* _start_daemon_thread: if not self.daemon_running
StartDaemonCheck(t) ==
    /\ t \in callers /\ pc[t] = "sd_check"
    /\ IF daemon_running THEN Goto(t, Cont(call[t].op)) ELSE Goto(t, "sd_start")
    /\ UNCHANGED <<cachevars, syncvars, asyncvars, cfgvars, pickvars, sync_pmem, logvars, histvars, lifevars, dbvars, ghostvars,
                   workers, call>>

\* self.daemon_running = True; self.daemon_thread = Thread(...); start()
StartDaemonThread(t) ==
    /\ t \in callers /\ pc[t] = "sd_start"
    /\ Len(workers) < MaxWorkers
    /\ daemon_running' = TRUE
    /\ workers' = Append(workers, [pc |-> "connect", item |-> NoItem])
    /\ daemon_thread' = Len(workers) + 1
    /\ Goto(t, Cont(call[t].op))
    /\ UNCHANGED <<cachevars, sync_write_queue, sync_initialized, asyncvars,
                   cfgvars, pickvars, sync_pmem, logvars, histvars, lifevars, dbvars, ghostvars, call>>

----------------------------------------------------------------------------
(* pmem/sync_pmem.py: the write-through PersistentMemory.  When an instance  *)
(* of it is paired with the instance above, each save_sync and load_sync is  *)
(* also made, as save and load, on that instance and its own database file.  *)

\* No write-through instance is run beside this one.
Unpaired ==
    [paired |-> FALSE, initialized |-> FALSE, memory_store |-> <<>>, db |-> {},
     ret |-> None]

\* PersistentMemory(database_file) on a file holding the rows of table
Paired(table) ==
    [paired |-> TRUE, initialized |-> FALSE, memory_store |-> <<>>, db |-> table,
     ret |-> None]

\* initialize(): CREATE TABLE IF NOT EXISTS leaves the rows alone
sync_pmem_initialize(s) == [s EXCEPT !.initialized = TRUE]

\* save(key, val): memory_store[hash_key] = val; REPLACE INTO memory; commit
sync_pmem_save(s, k, v) ==
    [sync_pmem_initialize(s) EXCEPT
        !.memory_store = dict_set(@, name_hash(k), v),
        !.db = sql_replace(@, name_hash(k), dumps(v))]

\* load(key, defval): the cached value, else the row's value, which is
\* cached, else defval
sync_pmem_load(s, k, d) ==
    LET h == name_hash(k)
        i == sync_pmem_initialize(s)
    IN  IF h \in DOMAIN s.memory_store
        THEN [i EXCEPT !.ret = s.memory_store[h]]
        ELSE IF sql_select(s.db, h) # {}
        THEN LET value == loads(CHOOSE b \in sql_select(s.db, h) : TRUE)
             IN  [i EXCEPT !.memory_store = dict_set(@, h, value), !.ret = value]
        ELSE [i EXCEPT !.ret = d]

----------------------------------------------------------------------------
(* save_sync (and __setitem__, which only calls it) *)

CallSaveSync(t, k, v) ==
    /\ QueueRoom
    /\ Enter(t, NewCall("save_sync", k, v, None))
    /\ Goto(t, FirstSync("save_sync"))
    /\ sync_pmem' = IF sync_pmem.paired THEN sync_pmem_save(sync_pmem, k, v)
                    ELSE sync_pmem
    /\ UNCHANGED <<cachevars, syncvars, asyncvars, cfgvars, pickvars, logvars, histvars, dbvars, ghostvars,
                   workers>>

\* save_sync that leaves the cache alone and only queues the write.
SaveSyncCacheSkipped(t) ==
    /\ t \in callers /\ pc[t] = "ss_cache"
    /\ deleted_keys' = deleted_keys \ {name_hash(call[t].key)}
    /\ lastMut' = [lastMut EXCEPT ![call[t].key] = <<"save_sync", call[t].val>>]
    /\ lastIn' = [lastIn EXCEPT ![call[t].key][1] = call[t].val]
    /\ Goto(t, "ss_put")
    /\ UNCHANGED <<memory_store, syncvars, asyncvars, cfgvars, pickvars, sync_pmem, logvars, histvars, lifevars, dbvars,
                   hist, expect, fifo, workers, call>>

\* with self._lock: memory_store[hash_key] = val; deleted_keys.discard(hash_key)
SaveSyncCache(t) ==
    /\ t \in callers /\ pc[t] = "ss_cache"
    /\ memory_store' = dict_set(memory_store, name_hash(call[t].key), call[t].val)
    /\ deleted_keys' = deleted_keys \ {name_hash(call[t].key)}
    /\ lastMut' = [lastMut EXCEPT ![call[t].key] = <<"save_sync", call[t].val>>]
    /\ lastIn' = [lastIn EXCEPT ![call[t].key][1] = call[t].val]
    /\ Goto(t, "ss_put")
    /\ UNCHANGED <<syncvars, asyncvars, cfgvars, pickvars, sync_pmem, logvars, histvars, lifevars, dbvars, hist, expect, fifo,
                   workers, call>>

\* sync_write_queue.put(('save', (hash_key, val)), timeout=1.0), and on
\* queue.Full the direct REPLACE INTO.
SaveSyncPut(t) ==
    /\ t \in callers /\ pc[t] = "ss_put"
    /\ IF put_full(sync_write_queue)
       THEN /\ db' = sql_replace(db, name_hash(call[t].key), dumps(call[t].val))
            /\ UNCHANGED sync_write_queue
       ELSE /\ sync_write_queue' = Append(sync_write_queue,
                   <<"save", name_hash(call[t].key), call[t].val>>)
            /\ UNCHANGED db
    /\ Return(t, None)
    /\ UNCHANGED <<cachevars, sync_initialized, daemon_running, daemon_thread,
                   asyncvars, cfgvars, pickvars, sync_pmem, logvars, histvars, lifevars, schema, ghostvars, workers>>

----------------------------------------------------------------------------
(* delete_sync (and __delitem__, which only calls it) *)

CallDeleteSync(t, k) ==
    /\ QueueRoom
    /\ Enter(t, NewCall("delete_sync", k, None, None))
    /\ Goto(t, "ds_cache")
    /\ UNCHANGED <<cachevars, syncvars, asyncvars, cfgvars, pickvars, sync_pmem, logvars, histvars, dbvars, ghostvars,
                   workers>>

\* delete_sync that evicts the cache entry but sets no tombstone.
DeleteSyncCacheNoTombstone(t) ==
    /\ t \in callers /\ pc[t] = "ds_cache"
    /\ memory_store' = dict_del(memory_store, name_hash(call[t].key))
    /\ lastMut' = [lastMut EXCEPT ![call[t].key] = <<"delete_sync", None>>]
    /\ lastIn' = lastIn
    /\ Goto(t, "ds_put")
    /\ UNCHANGED <<deleted_keys, syncvars, asyncvars, cfgvars, pickvars, sync_pmem, logvars, histvars, lifevars, dbvars,
                   hist, expect, fifo, workers, call>>

\* with self._lock: del memory_store[hash_key] if present; deleted_keys.add
DeleteSyncCache(t) ==
    /\ t \in callers /\ pc[t] = "ds_cache"
    /\ memory_store' = dict_del(memory_store, name_hash(call[t].key))
    /\ deleted_keys' = deleted_keys \cup {name_hash(call[t].key)}
    /\ lastMut' = [lastMut EXCEPT ![call[t].key] = <<"delete_sync", None>>]
    /\ lastIn' = lastIn
    /\ Goto(t, "ds_put")
    /\ UNCHANGED <<syncvars, asyncvars, cfgvars, pickvars, sync_pmem, logvars, histvars, lifevars, dbvars, hist, expect, fifo,
                   workers, call>>

\* sync_write_queue.put(('delete', hash_key), timeout=1.0), and on queue.Full
\* the direct DELETE.
DeleteSyncPut(t) ==
    /\ t \in callers /\ pc[t] = "ds_put"
    /\ IF put_full(sync_write_queue)
       THEN /\ db' = sql_delete(db, name_hash(call[t].key))
            /\ UNCHANGED sync_write_queue
       ELSE /\ sync_write_queue' = Append(sync_write_queue,
                   <<"delete", name_hash(call[t].key)>>)
            /\ UNCHANGED db
    /\ Return(t, None)
    /\ UNCHANGED <<cachevars, sync_initialized, daemon_running, daemon_thread,
                   asyncvars, cfgvars, pickvars, sync_pmem, logvars, histvars, lifevars, schema, ghostvars, workers>>

----------------------------------------------------------------------------
(* load_sync and __getitem__ *)

CallLoadSync(t, k, d) ==
    /\ Enter(t, NewCall("load_sync", k, None, d))
    /\ Goto(t, FirstSync("load_sync"))
    /\ sync_pmem' = IF sync_pmem.paired THEN sync_pmem_load(sync_pmem, k, d)
                    ELSE sync_pmem
    /\ UNCHANGED <<cachevars, syncvars, asyncvars, cfgvars, pickvars, logvars, histvars, dbvars, ghostvars,
                   workers>>

\* __getitem__: result = self.load_sync(key, _sentinel)
CallGetItem(t, k) ==
    /\ Enter(t, NewCall("getitem", k, None, Sentinel))
    /\ Goto(t, FirstSync("getitem"))
    /\ UNCHANGED <<cachevars, syncvars, asyncvars, cfgvars, pickvars, sync_pmem, logvars, histvars, dbvars, ghostvars,
                   workers>>

\* What the caller of load_sync / __getitem__ receives for load_sync's r.
LoadResult(t, r) == IF call[t].op = "getitem" THEN getitem_result(r) ELSE r

\* with self._lock: tombstone check, then cache lookup
LoadSyncFast(t) ==
    /\ t \in callers /\ pc[t] = "ls_fast"
    /\ LET h == name_hash(call[t].key) IN
       IF h \in deleted_keys
       THEN Return(t, LoadResult(t, call[t].defval))
       ELSE IF h \in DOMAIN memory_store
       THEN Return(t, LoadResult(t, memory_store[h]))
       ELSE Goto(t, "ls_db") /\ UNCHANGED call
    /\ UNCHANGED <<cachevars, syncvars, asyncvars, cfgvars, pickvars, sync_pmem, logvars, histvars, lifevars, dbvars, ghostvars,
                   workers>>

\* SELECT value FROM memory WHERE key = ?; row = cursor.fetchone();
\* value = pickle.loads(row[0]) (a missing table raises, and defval is returned)
LoadSyncSelect(t) ==
    /\ t \in callers /\ pc[t] = "ls_db"
    /\ LET found == sql_select(db, name_hash(call[t].key)) IN
       IF schema /\ found # {}
       THEN \E b \in found :
               /\ call' = [call EXCEPT ![t].tmp = loads(b)]
               /\ Goto(t, "ls_fill")
       ELSE Return(t, LoadResult(t, call[t].defval))
    /\ UNCHANGED <<cachevars, syncvars, asyncvars, cfgvars, pickvars, sync_pmem, logvars, histvars, lifevars, dbvars, ghostvars,
                   workers>>

\* The read without the try block: the storage error reaches the caller.
LoadSyncSelectRaises(t) ==
    /\ t \in callers /\ pc[t] = "ls_db"
    /\ errors < MaxErrors
    /\ errors' = errors + 1
    /\ UNCHANGED resumed
    /\ Return(t, "OperationalError")
    /\ UNCHANGED <<cachevars, syncvars, asyncvars, cfgvars, pickvars, sync_pmem, histvars, lifevars, dbvars,
                   ghostvars, workers>>

\* sqlite3.connect, db.execute, fetchone or pickle.loads raises: except
\* Exception logs "Error in direct read fallback" (313-314); return defval
LoadSyncSelectFails(t) ==
    /\ t \in callers /\ pc[t] = "ls_db"
    /\ errors < MaxErrors
    /\ errors' = errors + 1
    /\ UNCHANGED resumed
    /\ Return(t, LoadResult(t, call[t].defval))
    /\ UNCHANGED <<cachevars, syncvars, asyncvars, cfgvars, pickvars, sync_pmem, histvars, lifevars, dbvars,
                   ghostvars, workers>>

\* with self._lock: self.memory_store[hash_key] = value; return value
LoadSyncFill(t) ==
    /\ t \in callers /\ pc[t] = "ls_fill"
    /\ memory_store' = dict_set(memory_store, name_hash(call[t].key), call[t].tmp)
    /\ Goto(t, "ret")
    /\ call' = [call EXCEPT ![t].ret = LoadResult(t, call[t].tmp), ![t].tmp = None]
    /\ UNCHANGED <<deleted_keys, syncvars, asyncvars, cfgvars, pickvars, sync_pmem, logvars, histvars, lifevars, dbvars, ghostvars,
                   workers>>

----------------------------------------------------------------------------
(* flush_sync *)

CallFlushSync(t) ==
    /\ Enter(t, NewCall("flush_sync", NoKey, None, None))
    /\ Goto(t, "fs_check")
    /\ UNCHANGED <<cachevars, syncvars, asyncvars, cfgvars, pickvars, sync_pmem, logvars, histvars, dbvars, ghostvars,
                   workers>>

\* if not self.daemon_running: return
FlushSyncCheck(t) ==
    /\ t \in callers /\ pc[t] = "fs_check"
    /\ IF daemon_running
       THEN Goto(t, "fs_wait") /\ UNCHANGED call
       ELSE Return(t, "not_running")
    /\ UNCHANGED <<cachevars, syncvars, asyncvars, cfgvars, pickvars, sync_pmem, logvars, histvars, lifevars, dbvars, ghostvars,
                   workers>>

\* while not queue.empty() and time.time() - start_time < 5.0: the loop is
\* left because the queue is seen empty ...
FlushSyncDrained(t) ==
    /\ t \in callers /\ pc[t] = "fs_wait"
    /\ sync_write_queue = <<>>
    /\ Goto(t, "fs_report")
    /\ UNCHANGED <<cachevars, syncvars, asyncvars, cfgvars, pickvars, sync_pmem, logvars, histvars, lifevars, dbvars, ghostvars,
                   workers, call>>

\* ... or because the five seconds have passed.
FlushSyncTimeout(t) ==
    /\ t \in callers /\ pc[t] = "fs_wait"
    /\ sync_write_queue # <<>>
    /\ Goto(t, "fs_report")
    /\ UNCHANGED <<cachevars, syncvars, asyncvars, cfgvars, pickvars, sync_pmem, logvars, histvars, lifevars, dbvars, ghostvars,
                   workers, call>>

\* if not queue.empty(): warning "Flush timeout" else debug "All ... completed"
FlushSyncReport(t) ==
    /\ t \in callers /\ pc[t] = "fs_report"
    /\ Return(t, IF sync_write_queue = <<>> THEN "drained" ELSE "timeout")
    /\ UNCHANGED <<cachevars, syncvars, asyncvars, cfgvars, pickvars, sync_pmem, logvars, histvars, lifevars, dbvars, ghostvars,
                   workers>>

----------------------------------------------------------------------------
(* close_sync *)

CallCloseSync(t) ==
    /\ Enter(t, NewCall("close_sync", NoKey, None, None))
    /\ Goto(t, "cs_check")
    /\ UNCHANGED <<cachevars, syncvars, asyncvars, cfgvars, pickvars, sync_pmem, logvars, histvars, dbvars, ghostvars,
                   workers>>

\* close_sync without the daemon_running test: it clears the flag and joins
\* the daemon thread on every call.
CloseSyncCheckUnguarded(t) ==
    /\ t \in callers /\ pc[t] = "cs_check"
    /\ daemon_running' = FALSE
    /\ IF is_alive(daemon_thread)
       THEN Goto(t, "cs_join") /\ UNCHANGED call
       ELSE Return(t, "stopped")
    /\ UNCHANGED <<cachevars, sync_write_queue, sync_initialized, daemon_thread,
                   asyncvars, cfgvars, pickvars, sync_pmem, logvars, histvars, lifevars, dbvars, ghostvars, workers>>

\* if self.daemon_running: self.daemon_running = False; then join only a
\* live daemon thread
CloseSyncCheck(t) ==
    /\ t \in callers /\ pc[t] = "cs_check"
    /\ IF daemon_running
       THEN /\ daemon_running' = FALSE
            /\ IF is_alive(daemon_thread)
               THEN Goto(t, "cs_join") /\ UNCHANGED call
               ELSE Return(t, "stopped")
       ELSE /\ UNCHANGED daemon_running
            /\ Return(t, "not_running")
    /\ UNCHANGED <<cachevars, sync_write_queue, sync_initialized, daemon_thread,
                   asyncvars, cfgvars, pickvars, sync_pmem, logvars, histvars, lifevars, dbvars, ghostvars, workers>>

\* self.daemon_thread.join(timeout=5.0): the thread has ended ...
CloseSyncJoined(t) ==
    /\ t \in callers /\ pc[t] = "cs_join"
    /\ ~is_alive(daemon_thread)
    /\ Return(t, "stopped")
    /\ UNCHANGED <<cachevars, syncvars, asyncvars, cfgvars, pickvars, sync_pmem, logvars, histvars, lifevars, dbvars, ghostvars,
                   workers>>

\* ... or the five seconds have passed ("did not stop gracefully").
CloseSyncJoinTimeout(t) ==
    /\ t \in callers /\ pc[t] = "cs_join"
    /\ is_alive(daemon_thread)
    /\ Return(t, "join_timeout")
    /\ UNCHANGED <<cachevars, syncvars, asyncvars, cfgvars, pickvars, sync_pmem, logvars, histvars, lifevars, dbvars, ghostvars,
                   workers>>

----------------------------------------------------------------------------
(* _daemon_worker *)

SetWorker(w, p, i) == workers' = [workers EXCEPT ![w] = [pc |-> p, item |-> i]]

\* with sqlite3.connect(self.database_file) as db
WorkerConnect(w) ==
    /\ w <= Len(workers) /\ workers[w].pc = "connect"
    /\ SetWorker(w, "loop", NoItem)
    /\ UNCHANGED <<cachevars, syncvars, asyncvars, cfgvars, pickvars, sync_pmem, logvars, histvars, lifevars, dbvars, ghostvars,
                   pc, call>>

\* sqlite3.connect (or the first use of the connection) raises: the outer
\* handler logs "Fatal error in daemon worker" (165-166) and the thread ends
\* with daemon_running still set.
WorkerConnectFails(w) ==
    /\ w <= Len(workers) /\ workers[w].pc = "connect"
    /\ errors < MaxErrors
    /\ errors' = errors + 1
    /\ UNCHANGED resumed
    /\ SetWorker(w, "stopped", NoItem)
    /\ UNCHANGED <<cachevars, syncvars, asyncvars, cfgvars, pickvars, sync_pmem, histvars, lifevars, dbvars,
                   ghostvars, pc, call>>

\* while self.daemon_running
WorkerLoop(w) ==
    /\ w <= Len(workers) /\ workers[w].pc = "loop"
    /\ SetWorker(w, IF daemon_running THEN "get" ELSE "stopped", NoItem)
    /\ UNCHANGED <<cachevars, syncvars, asyncvars, cfgvars, pickvars, sync_pmem, logvars, histvars, lifevars, dbvars, ghostvars,
                   pc, call>>

\* A worker that takes the newest operation of the queue instead of the
\* oldest one.
WorkerGetNewest(w) ==
    /\ w <= Len(workers) /\ workers[w].pc = "get"
    /\ IF sync_write_queue # <<>>
       THEN /\ SetWorker(w, "apply", sync_write_queue[Len(sync_write_queue)])
            /\ sync_write_queue' = SubSeq(sync_write_queue, 1, Len(sync_write_queue) - 1)
            /\ fifo' = apply_op(fifo, sync_write_queue[Len(sync_write_queue)])
       ELSE /\ SetWorker(w, "loop", NoItem)
            /\ UNCHANGED <<sync_write_queue, fifo>>
    /\ UNCHANGED <<cachevars, sync_initialized, daemon_running, daemon_thread,
                   asyncvars, cfgvars, pickvars, sync_pmem, logvars, histvars, lifevars, dbvars, hist, lastMut, lastIn,
                   expect, pc, call>>

\* operation, data = self.sync_write_queue.get(timeout=0.1); on queue.Empty
\* the iteration goes on to the read queue, on which nothing is ever put,
\* and ends.
WorkerGet(w) ==
    /\ w <= Len(workers) /\ workers[w].pc = "get"
    /\ IF sync_write_queue # <<>>
       THEN /\ SetWorker(w, "apply", Head(sync_write_queue))
            /\ sync_write_queue' = Tail(sync_write_queue)
            /\ fifo' = apply_op(fifo, Head(sync_write_queue))
       ELSE /\ SetWorker(w, "loop", NoItem)
            /\ UNCHANGED <<sync_write_queue, fifo>>
    /\ UNCHANGED <<cachevars, sync_initialized, daemon_running, daemon_thread,
                   asyncvars, cfgvars, pickvars, sync_pmem, logvars, histvars, lifevars, dbvars, hist, lastMut, lastIn,
                   expect, pc, call>>

\* db.execute(...); db.commit(); self.sync_write_queue.task_done(); then the
\* read queue's get ends in queue.Empty and the iteration ends.
WorkerApply(w) ==
    /\ w <= Len(workers) /\ workers[w].pc = "apply"
    /\ db' = apply_op(db, workers[w].item)
    /\ resumed' = (resumed \/ errors > 0)
    /\ SetWorker(w, "loop", NoItem)
    /\ UNCHANGED <<cachevars, syncvars, asyncvars, cfgvars, pickvars, sync_pmem, errors, histvars, lifevars,
                   schema, ghostvars, pc, call>>

\* The exception of line 161 is not caught inside the loop: it reaches the
\* outer handler (165-166) and the thread ends.
WorkerApplyFailsFatal(w) ==
    /\ w <= Len(workers) /\ workers[w].pc = "apply"
    /\ errors < MaxErrors
    /\ errors' = errors + 1
    /\ UNCHANGED resumed
    /\ SetWorker(w, "stopped", NoItem)
    /\ UNCHANGED <<cachevars, syncvars, asyncvars, cfgvars, pickvars, sync_pmem, histvars, lifevars, dbvars,
                   ghostvars, pc, call>>

\* pickle.dumps, db.execute or db.commit raises: task_done is skipped, the
\* handler of the iteration logs "Error in daemon worker", sleeps 0.1 s and
\* the loop goes on (161-163).
WorkerApplyFails(w) ==
    /\ w <= Len(workers) /\ workers[w].pc = "apply"
    /\ errors < MaxErrors
    /\ errors' = errors + 1
    /\ UNCHANGED resumed
    /\ SetWorker(w, "loop", NoItem)
    /\ UNCHANGED <<cachevars, syncvars, asyncvars, cfgvars, pickvars, sync_pmem, histvars, lifevars, dbvars,
                   ghostvars, pc, call>>

----------------------------------------------------------------------------
(* initialize (async) *)

CallInitialize(t) ==
    /\ Enter(t, NewCall("initialize", NoKey, None, None))
    /\ Goto(t, "ai_check")
    /\ UNCHANGED <<cachevars, syncvars, asyncvars, cfgvars, pickvars, sync_pmem, logvars, histvars, dbvars, ghostvars,
                   workers>>

\* if not self.initialized: await self.initialize()
AInitCheck(t) ==
    /\ t \in callers /\ pc[t] = "a_init_check"
    /\ IF initialized THEN Goto(t, Cont(call[t].op)) ELSE Goto(t, "ai_check")
    /\ UNCHANGED <<cachevars, syncvars, asyncvars, cfgvars, pickvars, sync_pmem, logvars, histvars, lifevars, dbvars, ghostvars,
                   workers, call>>

\* initialize: if self.initialized: return
AsyncInitCheck(t) ==
    /\ t \in callers /\ pc[t] = "ai_check"
    /\ IF initialized THEN Goto(t, Cont(call[t].op)) ELSE Goto(t, "ai_schema")
    /\ UNCHANGED <<cachevars, syncvars, asyncvars, cfgvars, pickvars, sync_pmem, logvars, histvars, lifevars, dbvars, ghostvars,
                   workers, call>>

\* async with aiosqlite.connect(...): CREATE TABLE IF NOT EXISTS; commit
AsyncInitSchema(t) ==
    /\ t \in callers /\ pc[t] = "ai_schema"
    /\ schema' = TRUE
    /\ Goto(t, "ai_task")
    /\ UNCHANGED <<cachevars, syncvars, asyncvars, cfgvars, pickvars, sync_pmem, logvars, histvars, lifevars, db, ghostvars,
                   workers, call>>

\* self._init_task = asyncio.create_task(self._async_db_writer());
\* self.initialized = True; then self._start_daemon_thread()
AsyncInitTask(t) ==
    /\ t \in callers /\ pc[t] = "ai_task"
    /\ Len(writers) < MaxWorkers
    /\ writers' = Append(writers, [pc |-> "start", item |-> NoItem])
    /\ init_task' = Len(writers) + 1
    /\ initialized' = TRUE
    /\ Goto(t, "sd_check")
    /\ UNCHANGED <<cachevars, syncvars, write_queue, unfinished, cfgvars, pickvars, sync_pmem, logvars, histvars, lifevars,
                   dbvars, ghostvars, workers, call>>

\* initialize returns to its caller
AsyncInitDone(t) ==
    /\ t \in callers /\ pc[t] = "ai_done"
    /\ Return(t, None)
    /\ UNCHANGED <<cachevars, syncvars, asyncvars, cfgvars, pickvars, sync_pmem, logvars, histvars, lifevars, dbvars, ghostvars,
                   workers>>

----------------------------------------------------------------------------
(* save and load (async) *)

CallSave(t, k, v) ==
    /\ QueueRoom
    /\ Enter(t, NewCall("save", k, v, None))
    /\ Goto(t, FirstAsync("save"))
    /\ UNCHANGED <<cachevars, syncvars, asyncvars, cfgvars, pickvars, sync_pmem, logvars, histvars, dbvars, ghostvars,
                   workers>>

\* self.memory_store[hash_key] = val; await self.write_queue.put((hash_key, val))
SavePut(t) ==
    /\ t \in callers /\ pc[t] = "as_put"
    /\ memory_store' = dict_set(memory_store, name_hash(call[t].key), call[t].val)
    /\ write_queue' = Append(write_queue, <<name_hash(call[t].key), call[t].val>>)
    /\ unfinished' = unfinished + 1
    /\ Return(t, None)
    /\ lastMut' = [lastMut EXCEPT ![call[t].key] = <<"save", call[t].val>>]
    /\ lastIn' = [lastIn EXCEPT ![call[t].key][2] = call[t].val]
    /\ UNCHANGED <<deleted_keys, syncvars, initialized, init_task, writers,
                   cfgvars, pickvars, sync_pmem, logvars, histvars, lifevars, dbvars, hist, expect, fifo, workers>>

CallLoad(t, k, d) ==
    /\ Enter(t, NewCall("load", k, None, d))
    /\ Goto(t, FirstAsync("load"))
    /\ UNCHANGED <<cachevars, syncvars, asyncvars, cfgvars, pickvars, sync_pmem, logvars, histvars, dbvars, ghostvars,
                   workers>>

\* if hash_key in self.memory_store: return self.memory_store[hash_key]
LoadFast(t) ==
    /\ t \in callers /\ pc[t] = "al_fast"
    /\ LET h == name_hash(call[t].key) IN
       IF h \in DOMAIN memory_store
       THEN Return(t, memory_store[h])
       ELSE Goto(t, "al_db") /\ UNCHANGED call
    /\ UNCHANGED <<cachevars, syncvars, asyncvars, cfgvars, pickvars, sync_pmem, logvars, histvars, lifevars, dbvars, ghostvars,
                   workers>>

\* SELECT value FROM memory WHERE key = ?; row = await cursor.fetchone()
LoadSelect(t) ==
    /\ t \in callers /\ pc[t] = "al_db"
    /\ LET found == sql_select(db, name_hash(call[t].key)) IN
       IF schema /\ found # {}
       THEN \E b \in found :
               /\ call' = [call EXCEPT ![t].tmp = loads(b)]
               /\ Goto(t, "al_fill")
       ELSE Return(t, call[t].defval)
    /\ UNCHANGED <<cachevars, syncvars, asyncvars, cfgvars, pickvars, sync_pmem, logvars, histvars, lifevars, dbvars, ghostvars,
                   workers>>

\* aiosqlite.connect, db.execute, fetchone or pickle.loads raises: except
\* Exception logs "Error reading from DB" (276-277); return defval
LoadSelectFails(t) ==
    /\ t \in callers /\ pc[t] = "al_db"
    /\ errors < MaxErrors
    /\ errors' = errors + 1
    /\ UNCHANGED resumed
    /\ Return(t, call[t].defval)
    /\ UNCHANGED <<cachevars, syncvars, asyncvars, cfgvars, pickvars, sync_pmem, histvars, lifevars, dbvars,
                   ghostvars, workers>>

\* self.memory_store[hash_key] = value; return value
LoadFill(t) ==
    /\ t \in callers /\ pc[t] = "al_fill"
    /\ memory_store' = dict_set(memory_store, name_hash(call[t].key), call[t].tmp)
    /\ Goto(t, "ret")
    /\ call' = [call EXCEPT ![t].ret = call[t].tmp, ![t].tmp = None]
    /\ UNCHANGED <<deleted_keys, syncvars, asyncvars, cfgvars, pickvars, sync_pmem, logvars, histvars, lifevars, dbvars, ghostvars,
                   workers>>

----------------------------------------------------------------------------
(* flush and close (async) *)

CallFlush(t) ==
    /\ Enter(t, NewCall("flush", NoKey, None, None))
    /\ Goto(t, "af_join")
    /\ UNCHANGED <<cachevars, syncvars, asyncvars, cfgvars, pickvars, sync_pmem, logvars, histvars, dbvars, ghostvars,
                   workers>>

\* await self.write_queue.join()
FlushJoin(t) ==
    /\ t \in callers /\ pc[t] = "af_join"
    /\ unfinished = 0
    /\ Return(t, None)
    /\ UNCHANGED <<cachevars, syncvars, asyncvars, cfgvars, pickvars, sync_pmem, logvars, histvars, lifevars, dbvars, ghostvars,
                   workers>>

CallClose(t) ==
    /\ Enter(t, NewCall("close", NoKey, None, None))
    /\ Goto(t, "ac_check")
    /\ UNCHANGED <<cachevars, syncvars, asyncvars, cfgvars, pickvars, sync_pmem, logvars, histvars, dbvars, ghostvars,
                   workers>>

\* if self._init_task: ... ; self.close_sync()
CloseCheck(t) ==
    /\ t \in callers /\ pc[t] = "ac_check"
    /\ IF init_task # 0 THEN Goto(t, "ac_join") ELSE Goto(t, "cs_check")
    /\ UNCHANGED <<cachevars, syncvars, asyncvars, cfgvars, pickvars, sync_pmem, logvars, histvars, lifevars, dbvars, ghostvars,
                   workers, call>>

\* close without the join: it goes on to cancel the writer at once.
CloseJoinNoWait(t) ==
    /\ t \in callers /\ pc[t] = "ac_join"
    /\ Goto(t, "ac_cancel")
    /\ UNCHANGED <<cachevars, syncvars, asyncvars, cfgvars, pickvars, sync_pmem, logvars, histvars, lifevars,
                   dbvars, ghostvars, workers, call>>

\* await self.write_queue.join()
CloseJoin(t) ==
    /\ t \in callers /\ pc[t] = "ac_join"
    /\ unfinished = 0
    /\ Goto(t, "ac_cancel")
    /\ UNCHANGED <<cachevars, syncvars, asyncvars, cfgvars, pickvars, sync_pmem, logvars, histvars, lifevars, dbvars, ghostvars,
                   workers, call>>

\* self._init_task.cancel()
CloseCancel(t) ==
    /\ t \in callers /\ pc[t] = "ac_cancel"
    /\ writers' = [writers EXCEPT ![init_task] = [pc |-> "cancelled", item |-> NoItem]]
    /\ Goto(t, "cs_check")
    /\ UNCHANGED <<cachevars, syncvars, write_queue, unfinished, initialized,
                   init_task, cfgvars, pickvars, sync_pmem, logvars, histvars, lifevars, dbvars, ghostvars, workers, call>>

----------------------------------------------------------------------------
(* _async_db_writer *)

SetWriter(i, p, x) == writers' = [writers EXCEPT ![i] = [pc |-> p, item |-> x]]

\* if not self.initialized: ... (initialized is set in the statement after
\* create_task, before the task first runs); async with aiosqlite.connect
WriterStart(i) ==
    /\ i <= Len(writers) /\ writers[i].pc = "start"
    /\ initialized
    /\ SetWriter(i, "get", NoItem)
    /\ UNCHANGED <<cachevars, syncvars, write_queue, unfinished, initialized,
                   init_task, cfgvars, pickvars, sync_pmem, logvars, histvars, lifevars, dbvars, ghostvars, workers, pc, call>>

\* await asyncio.sleep(0.1); hash_key, val = await self.write_queue.get()
WriterGet(i) ==
    /\ i <= Len(writers) /\ writers[i].pc = "get"
    /\ write_queue # <<>>
    /\ SetWriter(i, "write", Head(write_queue))
    /\ write_queue' = Tail(write_queue)
    /\ fifo' = sql_replace(fifo, Head(write_queue)[1], dumps(Head(write_queue)[2]))
    /\ UNCHANGED <<cachevars, syncvars, unfinished, initialized, init_task,
                   cfgvars, pickvars, sync_pmem, logvars, histvars, lifevars, dbvars, hist, lastMut, lastIn, expect,
                   workers, pc, call>>

\* REPLACE INTO memory ...; commit; finally: self.write_queue.task_done()
WriterWrite(i) ==
    /\ i <= Len(writers) /\ writers[i].pc = "write"
    /\ db' = sql_replace(db, writers[i].item[1], dumps(writers[i].item[2]))
    /\ resumed' = (resumed \/ errors > 0)
    /\ unfinished' = unfinished - 1
    /\ SetWriter(i, "get", NoItem)
    /\ UNCHANGED <<cachevars, syncvars, write_queue, initialized, init_task,
                   cfgvars, pickvars, sync_pmem, errors, histvars, lifevars, schema, ghostvars, workers, pc, call>>

\* pickle.dumps, db.execute or db.commit raises: except Exception logs
\* "Error writing to DB", finally: self.write_queue.task_done() (250-253).
WriterWriteFails(i) ==
    /\ i <= Len(writers) /\ writers[i].pc = "write"
    /\ errors < MaxErrors
    /\ errors' = errors + 1
    /\ UNCHANGED resumed
    /\ unfinished' = unfinished - 1
    /\ SetWriter(i, "get", NoItem)
    /\ UNCHANGED <<cachevars, syncvars, write_queue, initialized, init_task,
                   cfgvars, pickvars, sync_pmem, histvars, lifevars, dbvars, ghostvars, workers, pc, call>>

----------------------------------------------------------------------------
(* The history variant (src/skpmem/sqlite_memory2.py): one table of versions, *)
(* a queue.Queue of rows to insert and one writer thread.  Its table is the  *)
(* sequence of its rows in id order; its instance fields memory_store,       *)
(* write_queue and initialized are the variables of the same names.          *)

\* Bound on the timestamps (explicit dates and readings of datetime.now()).
MaxDate == 3
Dates == 1..MaxDate

\* Bound on the save_memory calls of one run.
MaxSaves == 3

\* hashlib.sha256(str(name).encode()).hexdigest()
name_hash256(k) == <<"sha256", k>>

\* hashlib.sha256(pickle.dumps(value)).hexdigest()
value_hash(v) == <<"sha256", dumps(v)>>

\* datetime.isoformat(): text whose order is the order of the instants.
isoformat(d) == <<"iso", d>>
iso_le(a, b) == a[2] <= b[2]

\* date=None as an argument, as a call's date, and fetchone() without a row
NoDateArg == 0
NoDate == <<"none", 0>>
NoHash == <<"none">>

HistCall(o, k, v, d, dt) ==
    [op |-> o, key |-> k, val |-> v, defval |-> d, ret |-> None,
     tmp |-> None, quiet |-> TRUE, date |-> dt]

\* The ids of the rows of key_hash kh dated at or before upto (NoDate: all).
rows_upto(tbl, kh, upto) ==
    {i \in 1..Len(tbl) :
        /\ tbl[i][1] = kh
        /\ upto = NoDate \/ iso_le(tbl[i][2], upto)}

\* ORDER BY date DESC LIMIT 1: the rows that can come first (equal dates
\* come in either order).
newest(tbl, ids) ==
    {i \in ids : \A j \in ids : iso_le(tbl[j][2], tbl[i][2])}

\* ORDER BY date DESC: the orders in which the rows ids can be returned.
date_desc(tbl, ids) ==
    {o \in [1..Cardinality(ids) -> ids] :
        /\ \A a, b \in 1..Cardinality(ids) : a # b => o[a] # o[b]
        /\ \A a, b \in 1..Cardinality(ids) :
              a < b => iso_le(tbl[o[b]][2], tbl[o[a]][2])}

\* DELETE FROM memory WHERE key_hash = ?
hist_delete(tbl, kh) == SelectSeq(tbl, LAMBDA r : r[1] # kh)

\* The application without the DELETE, whatever the item's history flag.
hist_apply_keep(tbl, item) ==
    Append(tbl, <<item[2], item[5], item[4], dumps(item[3])>>)

\* The writer's application of one queued item.
hist_apply(tbl, item) ==
    Append(IF item[6] THEN tbl ELSE hist_delete(tbl, item[2]),
           <<item[2], item[5], item[4], dumps(item[3])>>)

\* save_memory(key, val, date): the date is made text, or read from the
\* clock when none is given.
CallSaveMemory(t, k, v, d) ==
    /\ Len(saved) < MaxSaves
    /\ d = NoDateArg => clock < MaxDate
    /\ clock' = IF d = NoDateArg THEN clock + 1 ELSE clock
    /\ Enter(t, HistCall("save_memory", k, v, None,
                         isoformat(IF d = NoDateArg THEN clock + 1 ELSE d)))
    /\ Goto(t, "sm_select")
    /\ UNCHANGED <<cachevars, syncvars, asyncvars, cfgvars, pickvars, sync_pmem, logvars, dbvars, ghostvars,
                   workers, history, saved>>

\* SELECT value_hash FROM memory WHERE key_hash = ? ORDER BY date DESC LIMIT 1
SaveMemorySelect(t) ==
    /\ t \in callers /\ pc[t] = "sm_select"
    /\ LET ids == rows_upto(db, name_hash256(call[t].key), NoDate) IN
       IF ids = {}
       THEN call' = [call EXCEPT ![t].tmp = NoHash]
       ELSE \E i \in newest(db, ids) : call' = [call EXCEPT ![t].tmp = db[i][3]]
    /\ Goto(t, "sm_put")
    /\ UNCHANGED <<cachevars, syncvars, asyncvars, cfgvars, pickvars, sync_pmem, logvars, histvars, lifevars,
                   dbvars, ghostvars, workers>>

\* if not last_val_hash or last_val_hash[0] != val_hash: cache and queue the
\* version; else only print "Value already saved".
SaveMemoryPut(t) ==
    /\ t \in callers /\ pc[t] = "sm_put"
    /\ LET c == call[t] IN
       /\ IF c.tmp = NoHash \/ c.tmp # value_hash(c.val)
          THEN /\ memory_store' = dict_set(memory_store, name_hash256(c.key), c.val)
               /\ write_queue' = Append(write_queue,
                      <<c.key, name_hash256(c.key), c.val, value_hash(c.val),
                        c.date, history>>)
          ELSE UNCHANGED <<memory_store, write_queue>>
       /\ saved' = Append(saved, <<c.key, c.val, c.date>>)
    /\ pc' = [pc EXCEPT ![t] = "ret"]
    /\ call' = [call EXCEPT ![t].ret = None, ![t].tmp = None]
    /\ UNCHANGED <<deleted_keys, syncvars, unfinished, initialized, init_task,
                   writers, cfgvars, pickvars, sync_pmem, logvars, history, clock, lifevars, dbvars, ghostvars,
                   workers>>

\* load_memory(key, defval, date)
CallLoadMemory(t, k, d, dt) ==
    /\ Enter(t, HistCall("load_memory", k, None, d,
                         IF dt = NoDateArg THEN NoDate ELSE isoformat(dt)))
    /\ Goto(t, "lm_read")
    /\ UNCHANGED <<cachevars, syncvars, asyncvars, cfgvars, pickvars, sync_pmem, logvars, histvars, dbvars,
                   ghostvars, workers>>

\* The cache hit of a read without date, or else the SELECT ... ORDER BY date
\* DESC LIMIT 1 (with date <= ? for a dated read) and, without date, the
\* cache fill.
LoadMemoryRead(t) ==
    /\ t \in callers /\ pc[t] = "lm_read"
    /\ LET c == call[t]
           h == name_hash256(c.key)
           ids == rows_upto(db, h, c.date)
       IN IF c.date = NoDate /\ h \in DOMAIN memory_store
          THEN Return(t, memory_store[h]) /\ UNCHANGED memory_store
          ELSE IF ids = {}
          THEN Return(t, c.defval) /\ UNCHANGED memory_store
          ELSE \E i \in newest(db, ids) :
                  /\ Return(t, loads(db[i][4]))
                  /\ memory_store' = IF c.date = NoDate
                                     THEN dict_set(memory_store, h, loads(db[i][4]))
                                     ELSE memory_store
    /\ UNCHANGED <<deleted_keys, syncvars, asyncvars, cfgvars, pickvars, sync_pmem, logvars, histvars, lifevars,
                   dbvars, ghostvars, workers>>

\* load_all(key, defval) and flush()
CallLoadAll(t, k, d) ==
    /\ Enter(t, HistCall("load_all", k, None, d, NoDate))
    /\ Goto(t, "hf_wait")
    /\ UNCHANGED <<cachevars, syncvars, asyncvars, cfgvars, pickvars, sync_pmem, logvars, histvars, dbvars,
                   ghostvars, workers>>

CallHistFlush(t) ==
    /\ Enter(t, HistCall("hist_flush", NoKey, None, None, NoDate))
    /\ Goto(t, "hf_wait")
    /\ UNCHANGED <<cachevars, syncvars, asyncvars, cfgvars, pickvars, sync_pmem, logvars, histvars, dbvars,
                   ghostvars, workers>>

\* flush: while not self.write_queue.empty(): time.sleep(0.1)
HistFlushWait(t) ==
    /\ t \in callers /\ pc[t] = "hf_wait"
    /\ write_queue = <<>>
    /\ IF call[t].op = "load_all"
       THEN Goto(t, "la_select") /\ UNCHANGED call
       ELSE Return(t, None)
    /\ UNCHANGED <<cachevars, syncvars, asyncvars, cfgvars, pickvars, sync_pmem, logvars, histvars, lifevars,
                   dbvars, ghostvars, workers>>

\* SELECT value FROM memory WHERE key_hash = ? ORDER BY date DESC; fetchall
LoadAllSelect(t) ==
    /\ t \in callers /\ pc[t] = "la_select"
    /\ LET ids == rows_upto(db, name_hash256(call[t].key), NoDate) IN
       IF ids = {}
       THEN Return(t, call[t].defval)
       ELSE \E o \in date_desc(db, ids) :
               Return(t, [n \in 1..Cardinality(ids) |-> loads(db[o[n]][4])])
    /\ UNCHANGED <<cachevars, syncvars, asyncvars, cfgvars, pickvars, sync_pmem, logvars, histvars, lifevars,
                   dbvars, ghostvars, workers>>

\* async_db_writer: ... = self.write_queue.get()
HistWriterGet(i) ==
    /\ i <= Len(writers) /\ writers[i].pc = "hget"
    /\ write_queue # <<>>
    /\ SetWriter(i, "hwrite", Head(write_queue))
    /\ write_queue' = Tail(write_queue)
    /\ UNCHANGED <<cachevars, syncvars, unfinished, initialized, init_task,
                   cfgvars, pickvars, sync_pmem, logvars, histvars, lifevars, dbvars, ghostvars, workers, pc,
                   call>>

\* if not history: DELETE ...; INSERT INTO memory ...; conn.commit();
\* write_queue.task_done() (nothing reads the queue's task count)
HistWriterWrite(i) ==
    /\ i <= Len(writers) /\ writers[i].pc = "hwrite"
    /\ db' = hist_apply(db, writers[i].item)
    /\ SetWriter(i, "hget", NoItem)
    /\ UNCHANGED <<cachevars, syncvars, write_queue, unfinished, initialized,
                   init_task, cfgvars, pickvars, sync_pmem, logvars, histvars, lifevars, schema, ghostvars,
                   workers, pc, call>>

----------------------------------------------------------------------------
(* pickle_memory.py: CachedStore, a dict cached in memory whose snapshots a   *)
(* writer thread pickles to one file.                                        *)

\* Bound on the snapshots waiting in _write_queue (queue.Queue() is unbounded).
MaxPending == 2

\* Bound on the mutations of one run.
MaxMutations == 3

\* WriteOperation(data=self._cache.copy(), timestamp=datetime.now()): the
\* timestamp is taken under _cache_lock, so it follows the order of the
\* mutations; it is modelled by the number of the mutation.
WriteOperation(d, ts) == [data |-> d, timestamp |-> ts]

NoOperation == <<>>

\* The dicts a previous run can have left in the file.
PriorFiles == UNION {[S -> Values] : S \in SUBSET Keys}

\* CachedStore(file_path): _load_initial_data reads the file, or writes {} to
\* a file that does not exist; then the StoreWriter thread is started.
StoreInit(files) ==
    /\ file \in files
    /\ _cache = file
    /\ _write_queue = <<>>
    /\ _shutdown_flag = FALSE
    /\ _writer_thread = [pc |-> "loop", operation |-> NoOperation]
    /\ close_call = [pc |-> "idle", got |-> FALSE, last_operation |-> NoOperation]
    /\ mutations = 0
    /\ on_file = 0

SetDaemon(p, o) == _writer_thread' = [pc |-> p, operation |-> o]

SetClose(p, g, o) == close_call' = [pc |-> p, got |-> g, last_operation |-> o]

\* A mutation is made before close is called, and with room for its snapshot.
MayMutate ==
    /\ close_call.pc = "idle"
    /\ Len(_write_queue) < MaxPending
    /\ mutations < MaxMutations

\* store[key] = value: with self._cache_lock: self._cache[key] = value;
\* self._write_queue.put(WriteOperation(data=self._cache.copy(), ...))
StoreSetItem(k, v) ==
    /\ MayMutate
    /\ _cache' = dict_set(_cache, k, v)
    /\ _write_queue' = Append(_write_queue, WriteOperation(_cache', mutations + 1))
    /\ mutations' = mutations + 1
    /\ UNCHANGED <<pmemvars, on_file, _shutdown_flag, _writer_thread, file, close_call>>

\* delete(key): if key in self._cache: del self._cache[key]; put(copy)
StoreDelete(k) ==
    /\ MayMutate
    /\ k \in DOMAIN _cache
    /\ _cache' = dict_del(_cache, k)
    /\ _write_queue' = Append(_write_queue, WriteOperation(_cache', mutations + 1))
    /\ mutations' = mutations + 1
    /\ UNCHANGED <<pmemvars, on_file, _shutdown_flag, _writer_thread, file, close_call>>

\* clear(): self._cache.clear(); put(WriteOperation(data={}, ...))
StoreClear ==
    /\ MayMutate
    /\ _cache' = <<>>
    /\ _write_queue' = Append(_write_queue, WriteOperation(<<>>, mutations + 1))
    /\ mutations' = mutations + 1
    /\ UNCHANGED <<pmemvars, on_file, _shutdown_flag, _writer_thread, file, close_call>>

\* while not self._shutdown_flag.is_set()
DaemonLoop ==
    /\ _writer_thread.pc = "loop"
    /\ SetDaemon(IF _shutdown_flag THEN "exited" ELSE "get", NoOperation)
    /\ UNCHANGED <<pmemvars, mutations, on_file, _cache, _write_queue, _shutdown_flag, file, close_call>>

\* operation = self._write_queue.get(timeout=self.write_interval); on
\* queue.Empty the iteration goes to the sleep.
DaemonGet ==
    /\ _writer_thread.pc = "get"
    /\ IF _write_queue # <<>>
       THEN /\ SetDaemon("coalesce", Head(_write_queue))
            /\ _write_queue' = Tail(_write_queue)
       ELSE /\ SetDaemon("sleep", NoOperation)
            /\ UNCHANGED _write_queue
    /\ UNCHANGED <<pmemvars, mutations, on_file, _cache, _shutdown_flag, file, close_call>>

\* while not self._write_queue.empty()
DaemonCoalesce ==
    /\ _writer_thread.pc = "coalesce"
    /\ SetDaemon(IF _write_queue = <<>> THEN "save" ELSE "get_nowait",
                 _writer_thread.operation)
    /\ UNCHANGED <<pmemvars, mutations, on_file, _cache, _write_queue, _shutdown_flag, file, close_call>>

\* operation = self._write_queue.get_nowait(); when close has emptied the
\* queue since the test, queue.Empty is raised and caught at line 76.
DaemonGetNowait ==
    /\ _writer_thread.pc = "get_nowait"
    /\ IF _write_queue # <<>>
       THEN /\ SetDaemon("coalesce", Head(_write_queue))
            /\ _write_queue' = Tail(_write_queue)
       ELSE /\ SetDaemon("sleep", NoOperation)
            /\ UNCHANGED _write_queue
    /\ UNCHANGED <<pmemvars, mutations, on_file, _cache, _shutdown_flag, file, close_call>>

\* self._save_to_file(operation.data): pickle.dump to the temporary file and
\* os.replace(temp_file, self.file_path)
DaemonSave ==
    /\ _writer_thread.pc = "save"
    /\ file' = _writer_thread.operation.data
    /\ on_file' = _writer_thread.operation.timestamp
    /\ SetDaemon("sleep", NoOperation)
    /\ UNCHANGED <<pmemvars, mutations, _cache, _write_queue, _shutdown_flag, close_call>>

\* time.sleep(self.write_interval)
DaemonSleep ==
    /\ _writer_thread.pc = "sleep"
    /\ SetDaemon("loop", NoOperation)
    /\ UNCHANGED <<pmemvars, mutations, on_file, _cache, _write_queue, _shutdown_flag, file, close_call>>

\* close(): self._shutdown_flag.set()
CallStoreClose ==
    /\ close_call.pc = "idle"
    /\ _shutdown_flag' = TRUE
    /\ SetClose("join", FALSE, NoOperation)
    /\ UNCHANGED <<pmemvars, mutations, on_file, _cache, _write_queue, _writer_thread, file>>

\* self._writer_thread.join(timeout=5.0), the thread having ended
StoreCloseJoin ==
    /\ close_call.pc = "join"
    /\ _writer_thread.pc = "exited"
    /\ SetClose("empty", FALSE, NoOperation)
    /\ UNCHANGED <<pmemvars, mutations, on_file, _cache, _write_queue, _shutdown_flag, _writer_thread, file>>

\* self._writer_thread.join(timeout=5.0) returns after the five seconds, the
\* thread being still alive (in a get or a sleep of write_interval, or in a
\* write to the file that takes that long).
StoreCloseJoinTimeout ==
    /\ close_call.pc = "join"
    /\ _writer_thread.pc # "exited"
    /\ SetClose("empty", FALSE, NoOperation)
    /\ UNCHANGED <<pmemvars, mutations, on_file, _cache, _write_queue, _shutdown_flag, _writer_thread, file>>

\* if not self._write_queue.empty(): last_operation = None
StoreCloseEmpty ==
    /\ close_call.pc = "empty"
    /\ SetClose(IF _write_queue # <<>> THEN "drain" ELSE "done", FALSE, NoOperation)
    /\ UNCHANGED <<pmemvars, mutations, on_file, _cache, _write_queue, _shutdown_flag, _writer_thread, file>>

\* while not self._write_queue.empty()
StoreCloseDrain ==
    /\ close_call.pc = "drain"
    /\ SetClose(IF _write_queue # <<>> THEN "get_nowait" ELSE "save",
                close_call.got, close_call.last_operation)
    /\ UNCHANGED <<pmemvars, mutations, on_file, _cache, _write_queue, _shutdown_flag, _writer_thread, file>>

\* last_operation = self._write_queue.get_nowait(); when the writer thread
\* has emptied the queue since the test, queue.Empty leaves close.
StoreCloseGetNowait ==
    /\ close_call.pc = "get_nowait"
    /\ IF _write_queue # <<>>
       THEN /\ SetClose("drain", TRUE, Head(_write_queue))
            /\ _write_queue' = Tail(_write_queue)
       ELSE /\ SetClose("raised", close_call.got, close_call.last_operation)
            /\ UNCHANGED _write_queue
    /\ UNCHANGED <<pmemvars, mutations, on_file, _cache, _shutdown_flag, _writer_thread, file>>

\* if last_operation: self._save_to_file(last_operation.data)
StoreCloseSave ==
    /\ close_call.pc = "save"
    /\ file' = IF close_call.got THEN close_call.last_operation.data ELSE file
    /\ on_file' = IF close_call.got THEN close_call.last_operation.timestamp
                  ELSE on_file
    /\ SetClose("done", FALSE, NoOperation)
    /\ UNCHANGED <<pmemvars, mutations, _cache, _write_queue, _shutdown_flag, _writer_thread>>

----------------------------------------------------------------------------
(* A fresh instance on the same database file *)

\* PersistentMemory(database_file, key_error): __init__, once every thread
\* and task of the previous instance has ended.
Reopen(t, ke) ==
    /\ t \in callers
    /\ \A u \in callers : pc[u] = "idle"
    /\ closed
    /\ ~daemon_running
    /\ \A w \in 1..Len(workers) : workers[w].pc = "stopped"
    /\ \A i \in 1..Len(writers) : writers[i].pc = "cancelled"
    /\ memory_store' = <<>>
    /\ deleted_keys' = {}
    /\ sync_write_queue' = <<>>
    /\ sync_initialized' = FALSE
    /\ daemon_running' = FALSE
    /\ daemon_thread' = 0
    /\ write_queue' = <<>>
    /\ unfinished' = 0
    /\ initialized' = FALSE
    /\ init_task' = 0
    /\ key_error' = ke
    /\ closed' = FALSE
    /\ workers' = <<>>
    /\ writers' = <<>>
    /\ hist' = [u \in callers |-> <<Blank, Blank>>]
    /\ lastMut' = [k \in Keys |-> <<"none", None>>]
    /\ lastIn' = [k \in Keys |-> <<None, None>>]
    /\ expect' = IF expect = <<>> THEN <<>> ELSE <<expect[1], expect[2], TRUE>>
    /\ fifo' = db
    /\ UNCHANGED <<db, schema, callers, keyset, pc, call, histvars, logvars,
                   pickvars, sync_pmem>>

----------------------------------------------------------------------------
(* Specifications *)

\* The tables a previous run on the same database file can have left: at
\* most one row per key (key is the PRIMARY KEY).
PriorTables(ks) ==
    {{<<name_hash(k), dumps(f[k])>> : k \in DOMAIN f} :
        f \in UNION {[S -> Values] : S \in SUBSET ks}}

InitPmem(cs, ks, kes, tables) ==
    /\ memory_store = <<>>
    /\ deleted_keys = {}
    /\ sync_write_queue = <<>>
    /\ sync_initialized = FALSE
    /\ daemon_running = FALSE
    /\ daemon_thread = 0
    /\ write_queue = <<>>
    /\ unfinished = 0
    /\ initialized = FALSE
    /\ init_task = 0
    /\ key_error \in kes
    /\ workers = <<>>
    /\ writers = <<>>
    /\ db \in tables
    /\ schema = (db # {})
    /\ callers = cs
    /\ keyset = ks
    /\ closed = FALSE
    /\ pc = [t \in cs |-> "idle"]
    /\ call = [t \in cs |-> NoCall]
    /\ hist = [t \in cs |-> <<Blank, Blank>>]
    /\ lastMut = [k \in Keys |-> <<"none", None>>]
    /\ lastIn = [k \in Keys |-> <<None, None>>]
    /\ expect = <<>>
    /\ fifo = db
    /\ history = FALSE
    /\ clock = 0
    /\ errors = 0
    /\ resumed = FALSE
    /\ saved = <<>>

\* A fresh PersistentMemory instance, next to a CachedStore nothing uses.
InitWith(cs, ks, kes, tables) ==
    /\ InitPmem(cs, ks, kes, tables)
    /\ StoreInit({<<>>})
    /\ sync_pmem = Unpaired

\* One caller thread on a new database file; later instances reopen it.
Init == InitWith({"t1"}, Keys, BOOLEAN, {{}})

\* One caller, one key, key_error left at its default, on a new database
\* file or on one a previous run has written.
InitDual == InitWith({"t1"}, {"k1"}, {FALSE}, PriorTables({"k1"}))

\* Two caller threads, one key.
InitMT == InitWith({"t1", "t2"}, {"k1"}, {FALSE}, PriorTables({"k1"}))

\* Thread t inside the threaded API.
SyncStep(t) ==
    \/ \E k \in Keys, v \in Values : CallSaveSync(t, k, v)
    \/ \E k \in Keys : CallLoadSync(t, k, Dflt)
    \/ InitCheck(t)
    \/ InitSyncCheck(t)
    \/ InitSyncSchema(t)
    \/ InitSyncSet(t)
    \/ StartDaemonCheck(t)
    \/ StartDaemonThread(t)
    \/ SaveSyncCache(t)
    \/ SaveSyncPut(t)
    \/ LoadSyncFast(t)
    \/ LoadSyncSelect(t)
    \/ LoadSyncFill(t)
    \/ Resume(t)

\* Thread t calls delete_sync or takes a step of it.
DeleteStep(t) ==
    \/ \E k \in Keys : CallDeleteSync(t, k)
    \/ DeleteSyncCache(t)
    \/ DeleteSyncPut(t)

\* Thread t calls close_sync or takes a step of it (close runs it too).
CloseStep(t) ==
    \/ CallCloseSync(t)
    \/ CloseSyncCheck(t)
    \/ CloseSyncJoined(t)
    \/ CloseSyncJoinTimeout(t)

\* Map-style reads, flush_sync, close_sync and the next instance.
SyncMore(t) ==
    \/ \E k \in Keys : CallGetItem(t, k)
    \/ CallFlushSync(t)
    \/ FlushSyncCheck(t)
    \/ FlushSyncDrained(t)
    \/ FlushSyncTimeout(t)
    \/ FlushSyncReport(t)
    \/ \E ke \in BOOLEAN : Reopen(t, ke)

\* The cooperative API, called by t.
AsyncStep(t) ==
    \/ CallInitialize(t)
    \/ \E k \in Keys, v \in Values : CallSave(t, k, v)
    \/ \E k \in Keys : CallLoad(t, k, Dflt)
    \/ CallFlush(t)
    \/ CallClose(t)
    \/ AInitCheck(t)
    \/ AsyncInitCheck(t)
    \/ AsyncInitSchema(t)
    \/ AsyncInitTask(t)
    \/ AsyncInitDone(t)
    \/ SavePut(t)
    \/ LoadFast(t)
    \/ LoadSelect(t)
    \/ LoadFill(t)
    \/ FlushJoin(t)
    \/ CloseCheck(t)
    \/ CloseJoin(t)
    \/ CloseCancel(t)

WorkerStep(w) ==
    \/ WorkerConnect(w)
    \/ WorkerLoop(w)
    \/ WorkerGet(w)
    \/ WorkerApply(w)

WriterStep(i) ==
    \/ WriterStart(i)
    \/ WriterGet(i)
    \/ WriterWrite(i)

\* The threaded mode: one caller thread and the daemon worker.
Next ==
    \/ \E t \in Threads : SyncStep(t)
    \/ \E t \in Threads : DeleteStep(t)
    \/ \E t \in Threads : CloseStep(t)
    \/ \E t \in Threads : SyncMore(t)
    \/ \E w \in WorkerIds : WorkerStep(w)

Spec == Init /\ [][Next]_vars

\* Both modes on one instance.
NextDual ==
    \/ \E t \in Threads : SyncStep(t)
    \/ \E t \in Threads : DeleteStep(t)
    \/ \E t \in Threads : CloseStep(t)
    \/ \E t \in Threads : AsyncStep(t)
    \/ \E w \in WorkerIds : WorkerStep(w)
    \/ \E i \in WorkerIds : WriterStep(i)

SpecDual == InitDual /\ [][NextDual]_vars

\* Two threads in save_sync and load_sync at once.
NextMT ==
    \/ \E t \in Threads : SyncStep(t)
    \/ \E w \in WorkerIds : WorkerStep(w)

SpecMT == InitMT /\ [][NextMT]_vars

\* sqlite_memory2.PersistentMemory(database_file, history) on a new database
\* file: __init__ runs initialize, which creates the table and starts the
\* writer thread.
InitHist ==
    /\ memory_store = <<>>
    /\ deleted_keys = {}
    /\ sync_write_queue = <<>>
    /\ sync_initialized = FALSE
    /\ daemon_running = FALSE
    /\ daemon_thread = 0
    /\ write_queue = <<>>
    /\ unfinished = 0
    /\ initialized = TRUE
    /\ init_task = 0
    /\ key_error = FALSE
    /\ workers = <<>>
    /\ writers = <<[pc |-> "hget", item |-> NoItem]>>
    /\ db = <<>>
    /\ schema = TRUE
    /\ callers = {"t1"}
    /\ keyset = {"k1"}
    /\ closed = FALSE
    /\ pc = [t \in {"t1"} |-> "idle"]
    /\ call = [t \in {"t1"} |-> NoCall]
    /\ hist = [t \in {"t1"} |-> <<Blank, Blank>>]
    /\ lastMut = [k \in Keys |-> <<"none", None>>]
    /\ lastIn = [k \in Keys |-> <<None, None>>]
    /\ expect = <<>>
    /\ fifo = db
    /\ history \in BOOLEAN
    /\ clock = 0
    /\ errors = 0
    /\ resumed = FALSE
    /\ saved = <<>>
    /\ StoreInit({<<>>})
    /\ sync_pmem = Unpaired

\* The history variant, called by t.
HistStep(t) ==
    \/ \E k \in Keys, v \in Values, d \in Dates \cup {NoDateArg} :
          CallSaveMemory(t, k, v, d)
    \/ \E k \in Keys, dt \in Dates \cup {NoDateArg} :
          CallLoadMemory(t, k, Dflt, dt)
    \/ \E k \in Keys : CallLoadAll(t, k, <<>>)
    \/ CallHistFlush(t)
    \/ SaveMemorySelect(t)
    \/ SaveMemoryPut(t)
    \/ LoadMemoryRead(t)
    \/ HistFlushWait(t)
    \/ LoadAllSelect(t)
    \/ Resume(t)

HistWriterStep(i) ==
    \/ HistWriterGet(i)
    \/ HistWriterWrite(i)

NextHist ==
    \/ \E t \in Threads : HistStep(t)
    \/ \E i \in WorkerIds : HistWriterStep(i)

SpecHist == InitHist /\ [][NextHist]_vars

\* The same without the history: one caller saves one key, and the writer
\* thread replaces its row.
InitFlat == InitHist /\ ~history

SaveMemoryStep(t) ==
    \/ \E k \in Keys, v \in Values, d \in Dates \cup {NoDateArg} :
          CallSaveMemory(t, k, v, d)
    \/ SaveMemorySelect(t)
    \/ SaveMemoryPut(t)
    \/ Resume(t)

NextFlat ==
    \/ \E t \in Threads : SaveMemoryStep(t)
    \/ \E i \in WorkerIds : HistWriterStep(i)

SpecFlat == InitFlat /\ [][NextFlat]_vars


-----------------------------------------------------------------------------
(* The cooperative mode alone: two coroutines of one event loop use the      *)
(* async API of a fresh instance.  A coroutine is suspended only at an       *)
(* await: in initialize, between the test of `initialized` and create_task   *)
(* lies the awaited schema creation.                                         *)

InitCo == InitWith({"t1", "t2"}, {"k1"}, {FALSE}, PriorTables({"k1"}))

\* Coroutine t calls initialize, save or load, or takes a step of its call.
CoStep(t) ==
    \/ CallInitialize(t)
    \/ \E k \in Keys, v \in Values : CallSave(t, k, v)
    \/ \E k \in Keys : CallLoad(t, k, Dflt)
    \/ AInitCheck(t)
    \/ AsyncInitCheck(t)
    \/ AsyncInitSchema(t)
    \/ AsyncInitTask(t)
    \/ StartDaemonCheck(t)
    \/ StartDaemonThread(t)
    \/ AsyncInitDone(t)
    \/ SavePut(t)
    \/ LoadFast(t)
    \/ LoadSelect(t)
    \/ LoadFill(t)
    \/ Resume(t)

\* The daemon worker started by initialize finds its queue empty.
CoWorkerStep(w) ==
    \/ WorkerConnect(w)
    \/ WorkerLoop(w)
    \/ WorkerGet(w)

NextCo ==
    \/ \E t \in Threads : CoStep(t)
    \/ \E w \in WorkerIds : CoWorkerStep(w)
    \/ \E i \in WorkerIds : WriterStep(i)

SpecCo == InitCo /\ [][NextCo]_vars


-----------------------------------------------------------------------------
(* Failures while an operation is applied: one caller saves one key through  *)
(* the threaded API and through the async API, and the worker and the writer *)
(* may fail on an operation they have taken.                                 *)

InitFail == InitWith({"t1"}, {"k1"}, {FALSE}, {{}})

\* Caller t calls save_sync or takes a step of it.
SaveSyncStep(t) ==
    \/ \E k \in Keys, v \in Values : CallSaveSync(t, k, v)
    \/ InitCheck(t)
    \/ InitSyncCheck(t)
    \/ InitSyncSchema(t)
    \/ InitSyncSet(t)
    \/ StartDaemonCheck(t)
    \/ StartDaemonThread(t)
    \/ SaveSyncCache(t)
    \/ SaveSyncPut(t)
    \/ Resume(t)

\* Caller t calls async save or takes a step of it.
SaveStep(t) ==
    \/ \E k \in Keys, v \in Values : CallSave(t, k, v)
    \/ AInitCheck(t)
    \/ AsyncInitCheck(t)
    \/ AsyncInitSchema(t)
    \/ AsyncInitTask(t)
    \/ SavePut(t)

\* The same with one value only: what is saved plays no part in a failure.
FirstValueSaveSyncStep(t) ==
    \/ \E k \in Keys : CallSaveSync(t, k, "v1")
    \/ InitCheck(t)
    \/ InitSyncCheck(t)
    \/ InitSyncSchema(t)
    \/ InitSyncSet(t)
    \/ StartDaemonCheck(t)
    \/ StartDaemonThread(t)
    \/ SaveSyncCache(t)
    \/ SaveSyncPut(t)
    \/ Resume(t)

FirstValueSaveStep(t) ==
    \/ \E k \in Keys : CallSave(t, k, "v1")
    \/ AInitCheck(t)
    \/ AsyncInitCheck(t)
    \/ AsyncInitSchema(t)
    \/ AsyncInitTask(t)
    \/ SavePut(t)

WorkerFailStep(w) ==
    \/ WorkerStep(w)
    \/ WorkerApplyFails(w)

WriterFailStep(i) ==
    \/ WriterStep(i)
    \/ WriterWriteFails(i)

NextFail ==
    \/ \E t \in Threads : FirstValueSaveSyncStep(t)
    \/ \E t \in Threads : FirstValueSaveStep(t)
    \/ \E w \in WorkerIds : WorkerFailStep(w)
    \/ \E i \in WorkerIds : WriterFailStep(i)

\* The worker thread and the writer task are scheduled again and again (the
\* operating system's scheduler, the event loop); the caller need not go on.
SpecFail ==
    /\ InitFail
    /\ [][NextFail]_vars
    /\ WF_vars(\E w \in WorkerIds : WorkerFailStep(w))
    /\ WF_vars(\E i \in WorkerIds : WriterFailStep(i))


-----------------------------------------------------------------------------
(* The map-style interface of one running instance: one caller saves,        *)
(* deletes and reads two keys, under either setting of key_error, and the    *)
(* daemon worker applies the queue.                                          *)

InitDict == InitWith({"t1"}, Keys, BOOLEAN, PriorTables({"k1"}))

\* Caller t evaluates store[k].
GetItemStep(t) == \E k \in Keys : CallGetItem(t, k)

NextDict ==
    \/ \E t \in Threads : SyncStep(t)
    \/ \E t \in Threads : DeleteStep(t)
    \/ \E t \in Threads : GetItemStep(t)
    \/ \E w \in WorkerIds : WorkerStep(w)

SpecDict == InitDict /\ [][NextDict]_vars


-----------------------------------------------------------------------------
(* The worker's connection: one caller saves one key through the threaded    *)
(* API and the worker may fail to open its connection.                       *)

InitConn == InitWith({"t1"}, {"k1"}, {FALSE}, {{}})

WorkerConnStep(w) ==
    \/ WorkerStep(w)
    \/ WorkerConnectFails(w)

NextConn ==
    \/ \E t \in Threads : SaveSyncStep(t)
    \/ \E w \in WorkerIds : WorkerConnStep(w)

SpecConn == InitConn /\ [][NextConn]_vars


----------------------------------------------------------------------------
(* The threaded write-behind path of an instance that is never closed: one   *)
(* caller saves and deletes one key through the threaded API, in any order,  *)
(* and no storage operation fails.                                           *)

InitLive == InitWith({"t1"}, {"k1"}, {FALSE}, {{}})

NextLive ==
    \/ \E t \in Threads : SaveSyncStep(t)
    \/ \E t \in Threads : DeleteStep(t)
    \/ \E w \in WorkerIds : WorkerStep(w)

\* Thread t takes a step of the call it is in.
InCallStep(t) ==
    /\ t \in callers /\ pc[t] # "idle"
    /\ SaveSyncStep(t) \/ DeleteStep(t)

\* A started worker thread is scheduled again and again, and a call that has
\* begun runs to its return; the caller need not make another call.
SpecLive ==
    /\ InitLive
    /\ [][NextLive]_vars
    /\ WF_vars(\E w \in WorkerIds : WorkerStep(w))
    /\ WF_vars(\E t \in Threads : InCallStep(t))


----------------------------------------------------------------------------
(* CachedStore: the callers set and delete two keys and clear the store,     *)
(* then one of them closes it; the writer thread runs beside them.           *)

InitPick ==
    /\ InitPmem({"t1"}, {"k1"}, {FALSE}, {{}})
    /\ StoreInit(PriorFiles)
    /\ sync_pmem = Unpaired

MutateStep(k) ==
    \/ \E v \in Values : StoreSetItem(k, v)
    \/ StoreDelete(k)
    \/ StoreClear

DaemonStep ==
    \/ DaemonLoop
    \/ DaemonGet
    \/ DaemonCoalesce
    \/ DaemonGetNowait
    \/ DaemonSave
    \/ DaemonSleep

StoreCloseStep ==
    \/ CallStoreClose
    \/ StoreCloseJoin
    \/ StoreCloseJoinTimeout
    \/ StoreCloseEmpty
    \/ StoreCloseDrain
    \/ StoreCloseGetNowait
    \/ StoreCloseSave

NextPick ==
    \/ \E k \in Keys : MutateStep(k)
    \/ DaemonStep
    \/ StoreCloseStep

SpecPick == InitPick /\ [][NextPick]_vars


----------------------------------------------------------------------------
(* The write-behind store beside the write-through one: one caller makes a   *)
(* sequence of save_sync and load_sync calls, then flush_sync and close_sync, *)
(* and a pmem.sync_pmem instance on a copy of the same database file is      *)
(* given the same saves and loads.                                           *)

InitRef ==
    /\ InitPmem({"t1"}, Keys, {FALSE}, PriorTables(Keys))
    /\ StoreInit({<<>>})
    /\ sync_pmem = Paired(db)

\* Caller t calls flush_sync or takes a step of it.
FlushStep(t) ==
    \/ CallFlushSync(t)
    \/ FlushSyncCheck(t)
    \/ FlushSyncDrained(t)
    \/ FlushSyncTimeout(t)
    \/ FlushSyncReport(t)

NextRef ==
    \/ \E t \in Threads : SyncStep(t)
    \/ \E t \in Threads : FlushStep(t)
    \/ \E t \in Threads : CloseStep(t)
    \/ \E w \in WorkerIds : WorkerStep(w)

SpecRef == InitRef /\ [][NextRef]_vars


-----------------------------------------------------------------------------
(* Failures while the durable table is read: one caller saves and loads one  *)
(* key through the threaded API and through the async API, and a read of the *)
(* table may fail.                                                           *)

InitRead == InitWith({"t1"}, {"k1"}, {FALSE}, PriorTables({"k1"}))

\* Caller t calls async load or takes a step of it.
LoadStep(t) ==
    \/ \E k \in Keys : CallLoad(t, k, Dflt)
    \/ LoadFast(t)
    \/ LoadSelect(t)
    \/ LoadFill(t)

ReadFailStep(t) ==
    \/ LoadSyncSelectFails(t)
    \/ LoadSelectFails(t)

NextRead ==
    \/ \E t \in Threads : SyncStep(t)
    \/ \E t \in Threads : SaveStep(t)
    \/ \E t \in Threads : LoadStep(t)
    \/ \E t \in Threads : ReadFailStep(t)
    \/ \E w \in WorkerIds : WorkerStep(w)
    \/ \E i \in WorkerIds : WriterStep(i)

SpecRead == InitRead /\ [][NextRead]_vars

----------------------------------------------------------------------------
(* Properties *)

Absent == "absent"

\* What key k holds: the value of its latest mutation, or, when no call of
\* this instance has mutated it, what the database file holds for it.
Stored(k) ==
    IF lastMut[k][1] \in {"save_sync", "save"} THEN lastMut[k][2]
    ELSE IF lastMut[k][1] = "delete_sync" THEN Absent
    ELSE LET found == sql_select(db, name_hash(k)) IN
         IF schema /\ found # {}
         THEN loads(CHOOSE b \in found : TRUE)
         ELSE Absent

\* Caller t has just returned from a call of one of the methods ops.
Returned(t, ops) == t \in callers /\ pc[t] = "ret" /\ call[t].op \in ops

\* C1: read-your-writes. A load_sync(k) that follows save_sync(k, v) returns
\* v, and an async load(k) that follows an async save(k, v) returns v,
\* whether or not the write has reached the durable table.
C1_ReadYourWrites ==
    \A t \in Threads :
        /\ (Returned(t, {"load_sync"}) /\ lastMut[call[t].key][1] = "save_sync"
              => call[t].ret = lastMut[call[t].key][2])
        /\ (Returned(t, {"load"}) /\ lastMut[call[t].key][1] = "save"
              => call[t].ret = lastMut[call[t].key][2])

\* load_sync has returned the saved value while the save is still queued and
\* the durable table does not hold it.
C1_Witness ==
    \E t \in Threads :
        /\ Returned(t, {"load_sync"})
        /\ lastMut[call[t].key][1] = "save_sync"
        /\ call[t].ret = lastMut[call[t].key][2]
        /\ sync_write_queue # <<>>
        /\ <<name_hash(call[t].key), dumps(call[t].ret)>> \notin db

\* C2: durability after flush. After save_sync(k, v); flush_sync();
\* close_sync() on one instance, a fresh instance on the same database file
\* returns v from load_sync(k) and from store[k].
C2_DurableAfterFlush ==
    \A t \in Threads :
        /\ Returned(t, {"load_sync", "getitem"})
        /\ expect # <<>>
        /\ expect[3]
        /\ call[t].key = expect[1]
        => call[t].ret = expect[2]

\* C3: delete visibility. After save_sync(k, v) then delete_sync(k),
\* load_sync(k, D) returns D, also while the delete is still queued and the
\* durable row of k still exists.
C3_DeleteVisible ==
    \A t \in Threads :
        Returned(t, {"load_sync"}) /\ lastMut[call[t].key][1] = "delete_sync"
        => call[t].ret = call[t].defval

\* load_sync has returned D for a deleted key whose delete is still queued
\* and whose durable row still exists.
C3_Witness ==
    \E t \in Threads :
        /\ Returned(t, {"load_sync"})
        /\ lastMut[call[t].key][1] = "delete_sync"
        /\ call[t].ret = Dflt
        /\ sql_select(db, name_hash(call[t].key)) # {}
        /\ \E i \in 1..Len(sync_write_queue) :
              sync_write_queue[i] = <<"delete", name_hash(call[t].key)>>

\* C4: replace semantics. Once save_sync(k, v1); save_sync(k, v2);
\* flush_sync() has returned, the durable table holds exactly one row for k
\* and its value is v2. Stated for the returns of flush_sync on which it
\* found the queue empty.
C4_ReplaceSemantics ==
    \A t \in Threads :
        /\ Returned(t, {"flush_sync"})
        /\ call[t].ret = "drained"
        /\ hist[t][1][1] = "save_sync"
        /\ hist[t][2][1] = "save_sync"
        /\ hist[t][1][2] = hist[t][2][2]
        => sql_select(db, name_hash(hist[t][2][2])) = {dumps(hist[t][2][3])}

\* C5: backpressure never drops writes. Once flush_sync has returned after a
\* burst of save_sync calls, every saved value is in the durable table (a
\* save that meets a full queue being written directly).
C5_BurstDurable ==
    \A t \in Threads :
        Returned(t, {"flush_sync"})
        => \A k \in keyset :
              lastMut[k][1] = "save_sync"
              => <<name_hash(k), dumps(lastMut[k][2])>> \in db

\* C6: close drains the queue. When close_sync returns, every mutation that
\* was enqueued before the call has been applied to the durable table and
\* the worker is stopped. Stated for the returns of close_sync on which the
\* join saw the daemon thread end.
C6_CloseDrains ==
    \A t \in Threads :
        Returned(t, {"close_sync"}) /\ call[t].ret = "stopped"
        => /\ sync_write_queue = <<>>
           /\ \A w \in 1..Len(workers) : workers[w].pc = "stopped"

\* Caller t is in a close_sync that follows a close_sync, or in a close that
\* follows a close.
SecondClose(t) ==
    /\ t \in callers
    /\ call[t].op \in {"close_sync", "close"}
    /\ hist[t][2][1] = call[t].op

\* C7: idempotent close. A second close_sync() or close() returns without
\* waiting: it finds the cooperative queue joined already, never joins the
\* daemon thread, and leaves the worker's run flag cleared and the writer
\* task cancelled, as the first call left them.
C7_IdempotentClose ==
    \A t \in Threads :
        SecondClose(t)
        => /\ pc[t] # "cs_join"
           /\ pc[t] = "ac_join" => unfinished = 0
           /\ ~daemon_running
           /\ init_task # 0 /\ call[t].op = "close"
                => writers[init_task].pc = "cancelled"
           /\ pc[t] = "ret" => call[t].ret = "not_running"

\* A second close() has returned on an instance whose first close() joined
\* the cooperative queue, cancelled the writer and stopped the worker.
C7_Witness ==
    \E t \in Threads :
        /\ SecondClose(t)
        /\ call[t].op = "close"
        /\ pc[t] = "ret"
        /\ init_task # 0
        /\ db # {}
        /\ \A w \in 1..Len(workers) : workers[w].pc = "stopped"

\* C8: once delete_sync(k) has returned, no read of k through the instance
\* (load_sync, async load) returns a value k held before, until k is saved
\* again, also while the durable delete is in flight and the old row exists.
C8_NoReadOfDeleted ==
    \A t \in Threads :
        /\ Returned(t, {"load_sync", "load"})
        /\ lastMut[call[t].key][1] = "delete_sync"
        => call[t].ret \notin Values

\* C9: with several threads on one instance, a load_sync(k) that starts
\* after save_sync(k, v) has returned, with no mutation of k since, returns
\* v, also when another thread's cold-path load_sync(k) is filling the cache
\* from a durable row it read earlier.
C9_CacheReflectsLastMutation ==
    \A t \in Threads :
        /\ Returned(t, {"load_sync"})
        /\ call[t].quiet
        /\ lastMut[call[t].key][1] = "save_sync"
        => call[t].ret = lastMut[call[t].key][2]

versions(k, upto) ==
    {i \in 1..Len(saved) : saved[i][1] = k /\ iso_le(saved[i][3], upto)}

latest_versions(k, upto) ==
    {i \in versions(k, upto) :
        \A j \in versions(k, upto) : iso_le(saved[j][3], saved[i][3])}

\* C11: history accumulation. In history mode, after save_memory(k, v1) at
\* t1 and save_memory(k, v2) at t2 > t1 with v1 # v2 on a new database file,
\* load_all(k) returns [v2, v1].
C11_HistoryAccumulation ==
    \A t \in Threads :
        /\ Returned(t, {"load_all"})
        /\ history
        /\ Len(saved) = 2
        /\ saved[1][1] = call[t].key
        /\ saved[2][1] = call[t].key
        /\ saved[1][2] # saved[2][2]
        /\ saved[1][3][2] < saved[2][3][2]
        => call[t].ret = <<saved[2][2], saved[1][2]>>

\* C12: as-of read. In history mode load_memory(k, date=t) returns the value
\* of the version of k with the greatest timestamp <= t among all versions
\* saved so far (stated where that version's value is unique).
C12_AsOfRead ==
    \A t \in Threads :
        /\ Returned(t, {"load_memory"})
        /\ history
        /\ call[t].date # NoDate
        => \A i \in latest_versions(call[t].key, call[t].date) :
              (\A j \in latest_versions(call[t].key, call[t].date) :
                  saved[j][2] = saved[i][2])
              => call[t].ret = saved[i][2]

\* C13: dedup skip. In history mode two consecutive save_memory(k, v) calls
\* with identical content leave exactly one durable row for k once the queue
\* has drained and the writer is idle.
C13_DedupSkip ==
    /\ history
    /\ Len(saved) = 2
    /\ saved[1][1] = saved[2][1]
    /\ saved[1][2] = saved[2][2]
    /\ write_queue = <<>>
    /\ \A i \in 1..Len(writers) : writers[i].pc = "hget"
    => Cardinality(rows_upto(db, name_hash256(saved[1][1]), NoDate)) = 1

\* C14: read-your-writes in the history variant. save_memory(k, v)
\* immediately followed by load_memory(k) without a date returns v, after
\* any earlier save_memory calls and any progress of the writer.
C14_HistReadYourWrites ==
    \A t \in Threads :
        /\ Returned(t, {"load_memory"})
        /\ history
        /\ call[t].date = NoDate
        /\ saved # <<>>
        /\ saved[Len(saved)][1] = call[t].key
        => call[t].ret = saved[Len(saved)][2]

\* C15: a save clears the tombstone. After delete_sync(k), a later
\* save_sync(k, v) or async save(k, v) on the instance overwrites the cache
\* entry and removes k from the tombstone set, so the next load_sync(k)
\* returns v.
C15_SaveClearsTombstone ==
    \A t \in Threads :
        /\ Returned(t, {"load_sync"})
        /\ lastMut[call[t].key][1] \in {"save_sync", "save"}
        => /\ name_hash(call[t].key) \notin deleted_keys
           /\ call[t].ret = lastMut[call[t].key][2]

\* The daemon worker threads of the instance that have not ended.
live_workers == {w \in 1..Len(workers) : workers[w].pc # "stopped"}

\* C16: single consumer in threaded mode. At any time at most one daemon
\* worker thread of the instance consumes sync_write_queue, whatever the
\* interleaving of concurrent first-use calls.
C16_SingleWorker == Cardinality(live_workers) <= 1

\* The _async_db_writer tasks of the instance (none is ever cancelled while
\* another is created: close cancels only the one in _init_task).
writer_tasks == {i \in 1..Len(writers) : writers[i].pc # "cancelled"}

\* C17: single consumer in cooperative mode. At any time at most one
\* _async_db_writer task of the instance consumes write_queue, whatever the
\* interleaving of coroutines that call save, load or initialize before
\* initialisation has completed.
C17_SingleWriter == Cardinality(writer_tasks) <= 1

\* No daemon worker holds an operation it has taken and not yet applied.
workers_idle == \A w \in 1..Len(workers) : workers[w].pc # "apply"

\* C18: FIFO application in threaded mode. The save and delete operations
\* are applied in the order they were enqueued, so once the queue is drained
\* and the worker idle the durable state is the one that results from
\* applying the operations in that order: for each key, the state of the
\* last enqueued operation on it.
C18_FifoApplication ==
    sync_write_queue = <<>> /\ workers_idle => db = fifo

\* C19: when flush_sync returns without hitting its timeout, that is when it
\* leaves its wait loop because it saw the queue empty, every operation
\* enqueued before the call has completed its durable application, the one
\* the worker had already taken from the queue included.
C19_FlushCoversInFlight ==
    [][\A t \in callers :
          /\ pc[t] = "fs_wait"
          /\ pc'[t] = "fs_report"
          /\ sync_write_queue = <<>>
          => workers_idle /\ db = fifo]_vars

\* Some _async_db_writer task holds an item it has taken and not yet written.
writer_busy == \E i \in 1..Len(writers) : writers[i].pc = "write"

\* Whatever the outcome of applying the operation a worker has taken, the
\* worker goes on to its next iteration without the operation, and the queue
\* is as it was: the operation is dropped, not put back.
worker_continues ==
    \A w \in 1..Len(workers) :
        /\ workers[w].pc = "apply"
        /\ workers'[w] # workers[w]
        => /\ workers'[w] = [pc |-> "loop", item |-> NoItem]
           /\ sync_write_queue' = sync_write_queue

\* The same for a writer task.
writer_continues ==
    \A i \in 1..Len(writers) :
        /\ writers[i].pc = "write"
        /\ writers'[i] # writers[i]
        => /\ writers'[i] = [pc |-> "get", item |-> NoItem]
           /\ write_queue' = write_queue

\* C20: log and continue. A failure while the threaded worker or the
\* cooperative writer applies one queued operation does not stop it: the
\* failed operation is not retried and not put back on the queue, and every
\* operation enqueued after it is still taken and applied.
C20_LogAndContinue ==
    /\ [][worker_continues /\ writer_continues]_vars
    /\ (errors > 0 /\ sync_write_queue # <<>>) ~> ~workers_idle
    /\ (errors > 0 /\ write_queue # <<>>) ~> writer_busy

\* The worker has failed on one operation and has since applied another,
\* taken from the queue after it; the async API was never used and the
\* worker is still running.
C20_Witness ==
    /\ errors > 0
    /\ resumed
    /\ ~initialized
    /\ \E w \in 1..Len(workers) : workers[w].pc \in {"loop", "get"}

\* C21: the threaded worker loop ends only on the explicit stop signal. In
\* every state in which the worker has been started and daemon_running is
\* true the worker thread is still running; no storage error, a failure to
\* open the worker's connection included, makes it exit.
C21_WorkerRunsUntilStopped ==
    daemon_running => \A w \in 1..Len(workers) : workers[w].pc # "stopped"

\* C23: the threaded mutation queue is bounded. The queue has a finite
\* capacity (queue.Queue's maxsize, where 0 means unbounded) and the number
\* of pending operations never exceeds it, so that a put on a full queue
\* times out and the direct-write fallback runs.
C23_BoundedQueue ==
    /\ QueueMaxsize > 0
    /\ Len(sync_write_queue) <= QueueMaxsize

\* Every item put on write_queue has been processed: none is pending, none
\* is held by a writer task, and task_done has been called for each.
write_queue_joined == write_queue = <<>> /\ unfinished = 0 /\ ~writer_busy

\* C22: async close() first waits until every item put on write_queue has
\* been processed by the writer and only afterwards cancels the writer task
\* and stops the threaded worker, so no async save made before close() is
\* lost to the cancellation; async flush() likewise returns only after every
\* item enqueued before it has been processed.
C22_CloseJoinsFirst ==
    [][/\ \A i \in 1..Len(writers) :
             /\ i <= Len(writers')
             /\ writers[i].pc # "cancelled"
             /\ writers'[i].pc = "cancelled"
             => write_queue_joined
       /\ \A t \in callers :
             /\ call[t].op = "flush"
             /\ pc[t] # "ret"
             /\ pc'[t] = "ret"
             => write_queue_joined
       /\ \A t \in callers :
             /\ call[t].op = "close"
             /\ init_task # 0
             /\ daemon_running
             /\ ~daemon_running'
             => write_queue_joined /\ writers[init_task].pc = "cancelled"]_vars

\* close() has returned after an async save: the writer task is cancelled,
\* the worker is stopped and the row of the key holds the saved value.
C22_Witness ==
    \E t \in callers :
        /\ Returned(t, {"close"})
        /\ init_task # 0
        /\ writers[init_task].pc = "cancelled"
        /\ \A w \in 1..Len(workers) : workers[w].pc = "stopped"
        /\ \E k \in keyset :
              /\ lastMut[k][1] = "save"
              /\ sql_select(db, name_hash(k)) = {dumps(lastMut[k][2])}

\* The rows of key hash kh in the history variant's table.
rows_of(tbl, kh) == {i \in 1..Len(tbl) : tbl[i][1] = kh}

C25_ReadErrorGivesDefault ==
    [][\A t \in callers :
          /\ pc[t] \in {"ls_db", "al_db"}
          /\ call[t].op \in {"load_sync", "load"}
          /\ pc'[t] # pc[t]
          /\ errors' # errors
          => /\ pc'[t] = "ret"
             /\ call'[t].ret = call[t].defval
             /\ UNCHANGED <<memory_store, deleted_keys, sync_write_queue,
                            write_queue, db>>]_vars

\* A read of the table has failed and load_sync has returned D for a key that
\* is neither cached nor tombstoned and whose row exists.
C25_Witness ==
    \E t \in callers :
        /\ Returned(t, {"load_sync"})
        /\ errors > 0
        /\ call[t].ret = Dflt
        /\ name_hash(call[t].key) \notin DOMAIN memory_store
        /\ name_hash(call[t].key) \notin deleted_keys
        /\ sql_select(db, name_hash(call[t].key)) # {}
        /\ sync_write_queue = <<>> /\ write_queue = <<>>
        /\ workers_idle /\ ~writer_busy

\* Caller t takes a step of the body of load_sync or of async load.
load_step(t) ==
    /\ call[t].op \in {"load_sync", "load"}
    /\ pc[t] \in {"ls_fast", "ls_db", "ls_fill", "al_fast", "al_db", "al_fill"}
    /\ pc'[t] # pc[t]

\* C26: load_sync and async load have a single effect. They enqueue no
\* mutation and never modify the durable store or the tombstone set; the only
\* state change is inserting the durably-read value into the cache when the
\* key was not cached and a durable row was found; a key found in neither
\* place returns the default and changes nothing.
C26_LoadFrame ==
    [][\A t \in callers :
          load_step(t)
          => LET h == name_hash(call[t].key) IN
             /\ UNCHANGED <<sync_write_queue, write_queue, db, deleted_keys>>
             /\ memory_store' # memory_store
                => /\ h \notin DOMAIN memory_store
                   /\ pc[t] \in {"ls_fill", "al_fill"}
                   /\ memory_store' = dict_set(memory_store, h, call[t].tmp)
             /\ pc'[t] \in {"ls_fill", "al_fill"}
                => \E b \in sql_select(db, h) : call'[t].tmp = loads(b)
             /\ pc[t] \in {"ls_db", "al_db"} /\ sql_select(db, h) = {}
                => /\ pc'[t] = "ret"
                   /\ call'[t].ret = call[t].defval
                   /\ memory_store' = memory_store]_vars

\* C28: in every reachable state of an instance, under any interleaving of
\* save, save_sync, delete_sync, load and load_sync, no key hash is at once
\* in memory_store and in deleted_keys.
C28_CacheTombstoneDisjoint == DOMAIN memory_store \cap deleted_keys = {}

\* Both queues are drained, the worker and the writer hold nothing and no
\* call is in progress.
all_quiet ==
    /\ sync_write_queue = <<>> /\ write_queue = <<>>
    /\ workers_idle /\ ~writer_busy
    /\ \A t \in callers : pc[t] = "idle"

\* C30: cache/durable convergence across modes. When one key is written
\* through both modes of one instance (save_sync and async save, in any
\* order), then once both queues are drained and both consumers are idle the
\* durable row of the key holds the same value as its cache entry.
C30_CrossModeConvergence ==
    all_quiet /\ deleted_keys = {}
    => \A k \in keyset :
          /\ lastMut[k][1] \in {"save_sync", "save"}
          /\ name_hash(k) \in DOMAIN memory_store
          => sql_select(db, name_hash(k)) = {dumps(memory_store[name_hash(k)])}

\* The key was saved through both modes of the instance.
both_modes(k) == lastIn[k][1] # None /\ lastIn[k][2] # None

\* C30 (amended): when one key is written through both modes of one instance,
\* then once both queues are drained and both consumers are idle the durable
\* row of the key holds the latest value saved through save_sync or the latest
\* value saved through the async save; writes of the two modes are not ordered
\* relative to each other, so it need not be the cache entry.
C30_PerModeConvergence ==
    all_quiet /\ deleted_keys = {}
    => \A k \in keyset :
          both_modes(k)
          => \/ sql_select(db, name_hash(k)) = {dumps(lastIn[k][1])}
             \/ sql_select(db, name_hash(k)) = {dumps(lastIn[k][2])}

\* One key saved through both modes with different latest values, everything
\* drained, and the row is the save_sync value while the cache has the other.
C30_Witness ==
    /\ all_quiet /\ deleted_keys = {}
    /\ \E k \in keyset :
          /\ both_modes(k)
          /\ lastIn[k][1] # lastIn[k][2]
          /\ lastMut[k] = <<"save", lastIn[k][2]>>
          /\ sql_select(db, name_hash(k)) = {dumps(lastIn[k][1])}

\* C29: liveness of the threaded write-behind path. On an instance that is
\* never closed, every operation enqueued by save_sync or delete_sync is
\* eventually taken by the worker and applied to the durable store, whichever
\* public call was the first one made on the instance, delete_sync included:
\* a non-empty queue leads to a worker holding its oldest operation, and a
\* held operation leads to the table that results from applying it.
C29_EnqueuedEventuallyApplied ==
    /\ (sync_write_queue # <<>>) ~> ~workers_idle
    /\ ~workers_idle ~> (workers_idle /\ db = fifo)

\* C27: CachedStore.close persists the final state. After close() has
\* returned, the writer thread having exited, the pickle file holds exactly
\* the cache contents as of the last mutation made before close, whatever
\* snapshots were still queued or coalesced away.
C27_ClosePersistsFinalState ==
    close_call.pc = "done" /\ _writer_thread.pc = "exited" => file = _cache

\* C31: CachedStore writes snapshots to the file in enqueue order. Once the
\* snapshot produced by mutation i is on file, no snapshot produced by an
\* earlier mutation j < i is ever written over it, across the coalescing of
\* the writer daemon and the final drain done by close().
C31_SnapshotsInEnqueueOrder == [][on_file' >= on_file]_vars

\* Every load_sync is answered as the write-through store answers the same
\* load.
loads_agree ==
    \A t \in callers :
        Returned(t, {"load_sync"}) => call[t].ret = sync_pmem.ret

\* C32: the write-behind store refines the write-through store. For any
\* sequence of saves on a bounded set of keys and values, without storage
\* errors, the skpmem PersistentMemory (save_sync for each save, then
\* flush_sync and close_sync) answers every intermediate load with the same
\* value as pmem.sync_pmem.PersistentMemory given the same sequence, and when
\* close_sync has returned it leaves the same durable key-to-value table.
C32_WriteBehindRefines ==
    /\ loads_agree
    /\ \A t \in callers :
          Returned(t, {"close_sync"}) /\ hist[t][2][1] = "flush_sync"
          => db = sync_pmem.db

=============================================================================
